---- MODULE Spec2Model ----
(***************************************************************************)
(* A model of crabbiness, a NES emulator: the 6502 interpreter (cpu.rs),   *)
(* the bus (bus.rs), the PPU state machine (ppu.rs), the controller        *)
(* (controller.rs), the cartridge ROM (rom.rs) and the host loop           *)
(* (main.rs).                                                              *)
(*                                                                         *)
(* Arrays (RAM, ROM, VRAM, OAM, palette) are kept as functions over the    *)
(* indices whose byte differs from the array's fill byte, so that a 2 KiB  *)
(* array of zeros is the empty function.                                   *)
(***************************************************************************)
EXTENDS Integers, Sequences, FiniteSets, TLC

VARIABLES
    cpu,         \* Cpu: pc, a, x, y, sp, p, cycles           (cpu.rs 31-40)
    ram,         \* Bus::ram, 2048 bytes                       (bus.rs 8)
    rom,         \* Rom::prg_rom, fixed after construction     (rom.rs 27-31)
    ppu,         \* Ppu                                        (ppu.rs 4-20)
    controller,  \* Controller: index, status, strobe          (controller.rs 18-22)
    bus_cycle,   \* Bus::cycle, the CPU cycle accumulator      (bus.rs 12)
    fatal,       \* TRUE once a panic!/todo! has aborted the process
    last,        \* what the last operation was, saw and returned
    ops          \* number of operations applied so far

vars == <<cpu, ram, rom, ppu, controller, bus_cycle, fatal, last, ops>>

----------------------------------------------------------------------------
(* Bytes, words and bit flags *)

Byte == 0..255

U8(n) == n % 256

U16(n) == n % 65536

\* v & mask != 0 for a one-bit mask
HasFlag(v, mask) == (v \div mask) % 2 = 1

\* v | mask for a one-bit mask
WithFlag(v, mask) == IF HasFlag(v, mask) THEN v ELSE v + mask

\* v & !mask for a one-bit mask
WithoutFlag(v, mask) == IF HasFlag(v, mask) THEN v - mask ELSE v

\* bitflags' set(flag, value)
ChangeBit(v, mask, value) == IF value THEN WithFlag(v, mask) ELSE WithoutFlag(v, mask)

Lo(w) == w % 256

Hi(w) == (w \div 256) % 256

\* u16::from_le_bytes([lo, hi])
FromLeBytes(lo, hi) == lo + 256 * hi

\* arrays with a fill byte
Get(arr, i, fill) == IF i \in DOMAIN arr THEN arr[i] ELSE fill

Put(arr, i, v, fill) ==
    IF v = fill
    THEN [j \in DOMAIN arr \ {i} |-> arr[j]]
    ELSE [j \in DOMAIN arr \cup {i} |-> IF j = i THEN v ELSE arr[j]]

Empty == [j \in {} |-> 0]

\* F(v), with v evaluated once before F is applied. The operations below
\* thread the machine through long call chains; binding each intermediate
\* machine keeps the evaluation linear in the length of the chain.
Bind(v, F(_)) == CHOOSE r \in {F(x) : x \in {v}} : TRUE

----------------------------------------------------------------------------
(* PPU (ppu.rs) *)

\* Option<bool> of Ppu::has_nmi: the code only ever stores None or Some(true)
NmiNone == "None"

NmiRaised == "SomeTrue"

DotsPerScanline == 341

VBlankScanline == 241

ScanlinesPerFrame == 262

\* PpuCtrlRegister bits
NMISTARTS_ON_VBI == 128

VRAM_INC_PER_CPU == 4

\* PpuStatusRegister bits
VBLANK_START == 128

SPRITE_0_HIT == 64

\* PpuMaskRegister bits
SHOW_SPRITES == 16

\* Ppu::new
PpuNew(chr_rom, mirroring) ==
    [ chr_rom         |-> chr_rom,
      palette         |-> Empty,
      vram            |-> Empty,
      oam             |-> Empty,
      oam_addr        |-> 0,
      mirroring       |-> mirroring,
      ctrl_register   |-> 0,
      mask_register   |-> 0,
      addr_register   |-> [value |-> 0, latch |-> TRUE],
      status_register |-> 0,
      scroll_register |-> [x |-> 0, y |-> 0, latch |-> FALSE],
      buffer          |-> 0,
      cycle           |-> 0,
      scanline        |-> 0,
      has_nmi         |-> NmiNone ]

\* PpuCtrlRegister::nmi_starts_on_vblank_ok
NmiStartsOnVblankOk(pp) == HasFlag(pp.ctrl_register, NMISTARTS_ON_VBI)

\* PpuStatusRegister::is_vblank
IsVblank(pp) == HasFlag(pp.status_register, VBLANK_START)

\* PpuStatusRegister::set_vblank
SetVblank(pp, status) ==
    [pp EXCEPT !.status_register = ChangeBit(@, VBLANK_START, status)]

\* PpuStatusRegister::clear_sprite0
ClearSprite0(pp) ==
    [pp EXCEPT !.status_register = WithoutFlag(@, SPRITE_0_HIT)]

\* Ppu::set_sprite0_hit: sets or clears the bit from OAM[0] (y) and OAM[3] (x)
SetSprite0Hit(pp) ==
    LET x == Get(pp.oam, 3, 0)
        y == Get(pp.oam, 0, 0)
    IN  [pp EXCEPT !.status_register =
            ChangeBit(@, SPRITE_0_HIT,
                      /\ y = pp.scanline
                      /\ x <= pp.cycle
                      /\ HasFlag(pp.mask_register, SHOW_SPRITES))]

\* the body of `if self.scanline == 241` in Ppu::tick
PpuEnterVblank(pp) ==
    Bind(ClearSprite0(SetVblank(pp, TRUE)), LAMBDA v :
        IF NmiStartsOnVblankOk(v) THEN [v EXCEPT !.has_nmi = NmiRaised] ELSE v)

\* a frame wrap that leaves a pending NMI raised
PpuWrapFrame_KeepNmi(pp) ==
    SetVblank(ClearSprite0([pp EXCEPT !.scanline = 0]), FALSE)

\* the body of `if self.scanline >= 262` in Ppu::tick
PpuWrapFrame(pp) ==
    SetVblank(ClearSprite0([pp EXCEPT !.scanline = 0, !.has_nmi = NmiNone]), FALSE)

\* a tick that moves to the next scanline only past 341 dots
PpuTick_Past(pp, d) ==
    Bind([pp EXCEPT !.cycle = @ + d], LAMBDA added :
        IF added.cycle > DotsPerScanline
        THEN Bind([SetSprite0Hit(added) EXCEPT !.cycle = @ - DotsPerScanline,
                                               !.scanline = @ + 1], LAMBDA next :
             Bind(IF next.scanline = VBlankScanline
                  THEN PpuEnterVblank(next) ELSE next, LAMBDA vbl :
                 IF vbl.scanline >= ScanlinesPerFrame
                 THEN [ppu |-> PpuWrapFrame(vbl), frame |-> TRUE]
                 ELSE [ppu |-> vbl, frame |-> FALSE]))
        ELSE [ppu |-> added, frame |-> FALSE])

\* a tick that ends the frame one scanline early
PpuTick_ShortFrame(pp, d) ==
    Bind([pp EXCEPT !.cycle = @ + d], LAMBDA added :
        IF added.cycle >= DotsPerScanline
        THEN Bind([SetSprite0Hit(added) EXCEPT !.cycle = @ - DotsPerScanline,
                                               !.scanline = @ + 1], LAMBDA next :
             Bind(IF next.scanline = VBlankScanline
                  THEN PpuEnterVblank(next) ELSE next, LAMBDA vbl :
                 IF vbl.scanline >= ScanlinesPerFrame - 1
                 THEN [ppu |-> PpuWrapFrame(vbl), frame |-> TRUE]
                 ELSE [ppu |-> vbl, frame |-> FALSE]))
        ELSE [ppu |-> added, frame |-> FALSE])

\* Ppu::tick(cycle: u8) -> bool, as [ppu, frame]
PpuTick(pp, d) ==
    Bind([pp EXCEPT !.cycle = @ + d], LAMBDA added :
        IF added.cycle >= DotsPerScanline
        THEN Bind([SetSprite0Hit(added) EXCEPT !.cycle = @ - DotsPerScanline,
                                               !.scanline = @ + 1], LAMBDA next :
             Bind(IF next.scanline = VBlankScanline
                  THEN PpuEnterVblank(next) ELSE next, LAMBDA vbl :
                 IF vbl.scanline >= ScanlinesPerFrame
                 THEN [ppu |-> PpuWrapFrame(vbl), frame |-> TRUE]
                 ELSE [ppu |-> vbl, frame |-> FALSE]))
        ELSE [ppu |-> added, frame |-> FALSE])

\* a write_ppuctrl that raises the NMI whenever the new value enables it
WritePpuctrl_NoEdge(pp, input) ==
    Bind([pp EXCEPT !.ctrl_register = input], LAMBDA updated :
        IF NmiStartsOnVblankOk(updated) /\ IsVblank(updated)
        THEN [updated EXCEPT !.has_nmi = NmiRaised]
        ELSE updated)

\* Ppu::write_ppuctrl
WritePpuctrl(pp, input) ==
    LET before == NmiStartsOnVblankOk(pp)
    IN  Bind([pp EXCEPT !.ctrl_register = input], LAMBDA updated :
            IF ~before /\ NmiStartsOnVblankOk(updated) /\ IsVblank(updated)
            THEN [updated EXCEPT !.has_nmi = NmiRaised]
            ELSE updated)

\* Ppu::write_ppumask
WritePpumask(pp, input) == [pp EXCEPT !.mask_register = input]

\* a read_ppustatus that leaves the scroll latch where it was
ReadPpustatus_KeepScroll(pp) ==
    [ ppu |-> SetVblank([pp EXCEPT !.addr_register.latch = TRUE], FALSE),
      val |-> pp.status_register ]

\* Ppu::read_ppustatus, as [ppu, val]
ReadPpustatus(pp) ==
    [ ppu |-> SetVblank([pp EXCEPT !.scroll_register.latch = FALSE,
                                   !.addr_register.latch = TRUE], FALSE),
      val |-> pp.status_register ]

\* PpuAddrRegister::new
AddrNew == [value |-> 0, latch |-> TRUE]

\* PpuAddrRegister::reset
AddrReset(reg) == [reg EXCEPT !.latch = TRUE]

\* an update that never toggles the latch back
AddrUpdate_Stuck(reg, data) ==
    IF reg.latch
    THEN [value |-> FromLeBytes(Lo(reg.value), data), latch |-> FALSE]
    ELSE [value |-> FromLeBytes(data, Hi(reg.value)), latch |-> FALSE]

\* PpuAddrRegister::update
AddrUpdate(reg, data) ==
    IF reg.latch
    THEN [value |-> FromLeBytes(Lo(reg.value), data), latch |-> FALSE]
    ELSE [value |-> FromLeBytes(data, Hi(reg.value)), latch |-> TRUE]

RECURSIVE BitAnd(_, _)
\* a & b
BitAnd(a, b) ==
    IF a = 0 \/ b = 0 THEN 0
    ELSE (a % 2) * (b % 2) + 2 * BitAnd(a \div 2, b \div 2)

RECURSIVE BitXor(_, _)
\* a ^ b
BitXor(a, b) ==
    IF a = 0 THEN b
    ELSE IF b = 0 THEN a
    ELSE (((a % 2) + (b % 2)) % 2) + 2 * BitXor(a \div 2, b \div 2)

\* PpuAddrRegister::inc
AddrInc(reg, input) == [reg EXCEPT !.value = BitAnd(U16(@ + input), 16383)]

\* Ppu::write_ppuaddr
WritePpuaddr(pp, input) == [pp EXCEPT !.addr_register = AddrUpdate(@, input)]

\* PpuScrollRegister::write via Ppu::write_scrolldata
WriteScrolldata(pp, input) ==
    IF ~pp.scroll_register.latch
    THEN [pp EXCEPT !.scroll_register.x = input, !.scroll_register.latch = TRUE]
    ELSE [pp EXCEPT !.scroll_register.y = input, !.scroll_register.latch = FALSE]

\* PpuCtrlRegister::vram_inc
VramInc(pp) == IF HasFlag(pp.ctrl_register, VRAM_INC_PER_CPU) THEN 32 ELSE 1

\* Ppu::increment_vram
IncrementVram(pp) == [pp EXCEPT !.addr_register = AddrInc(@, VramInc(pp))]

\* a mirror_vram_addr that folds the third quadrant like the second under
\* vertical mirroring
MirrorVramAddr_Q3(pp, addr) ==
    LET index    == addr - 8192
        quadrant == index \div 1024
    IN  CASE ~pp.mirroring /\ quadrant = 1 -> index - 1024
          [] ~pp.mirroring /\ quadrant = 2 -> index - 1024
          [] ~pp.mirroring /\ quadrant = 3 -> index - 2048
          [] pp.mirroring /\ quadrant = 2  -> index - 2048
          [] pp.mirroring /\ quadrant = 3  -> index - 3072
          [] OTHER -> index

\* Ppu::mirror_vram_addr
MirrorVramAddr(pp, addr) ==
    LET index    == addr - 8192
        quadrant == index \div 1024
    IN  CASE ~pp.mirroring /\ quadrant = 1 -> index - 1024
          [] ~pp.mirroring /\ quadrant = 2 -> index - 1024
          [] ~pp.mirroring /\ quadrant = 3 -> index - 2048
          [] pp.mirroring /\ quadrant = 2  -> index - 2048
          [] pp.mirroring /\ quadrant = 3  -> index - 2048
          [] OTHER -> index

PaletteSize == 32

\* a write_ppudata without the arm for 0x3F10, 0x3F14, 0x3F18, 0x3F1C
WritePpudata_NoAlias(pp, input) ==
    LET addr == pp.addr_register.value
        ok(q) == [ppu |-> IncrementVram(q), panic |-> FALSE]
        bad   == [ppu |-> pp, panic |-> TRUE]
    IN  CASE addr <= 8191 -> bad
          [] addr >= 8192 /\ addr <= 12287 ->
                ok([pp EXCEPT !.vram = Put(@, MirrorVramAddr(pp, addr), input, 0)])
          [] addr >= 12288 /\ addr <= 16127 -> bad
          [] addr >= 16128 /\ addr <= 16383 ->
                IF addr - 16128 < PaletteSize
                THEN ok([pp EXCEPT !.palette = Put(@, addr - 16128, input, 0)])
                ELSE bad
          [] OTHER -> bad

\* Ppu::write_ppudata, as [ppu, panic]
WritePpudata(pp, input) ==
    LET addr == pp.addr_register.value
        ok(q) == [ppu |-> IncrementVram(q), panic |-> FALSE]
        bad   == [ppu |-> pp, panic |-> TRUE]
    IN  CASE addr <= 8191 -> bad
          [] addr >= 8192 /\ addr <= 12287 ->
                ok([pp EXCEPT !.vram = Put(@, MirrorVramAddr(pp, addr), input, 0)])
          [] addr >= 12288 /\ addr <= 16127 -> bad
          [] addr \in {16144, 16148, 16152, 16156} ->
                ok([pp EXCEPT !.palette = Put(@, addr - 16128 - 16, input, 0)])
          [] addr >= 16128 /\ addr <= 16383 /\ addr \notin {16144, 16148, 16152, 16156} ->
                IF addr - 16128 < PaletteSize
                THEN ok([pp EXCEPT !.palette = Put(@, addr - 16128, input, 0)])
                ELSE bad
          [] OTHER -> bad

\* Ppu::read_data, as [ppu, val, panic]
ReadData(pp) ==
    LET addr == pp.addr_register.value
        inc  == IncrementVram(pp)
        bad  == [ppu |-> inc, val |-> 0, panic |-> TRUE]
    IN  CASE addr <= 8191 ->
                IF addr < pp.chr_rom.len
                THEN [ppu |-> [inc EXCEPT !.buffer = Get(pp.chr_rom.data, addr, 0)],
                      val |-> pp.buffer, panic |-> FALSE]
                ELSE bad
          [] addr >= 8192 /\ addr <= 12287 ->
                [ppu |-> [inc EXCEPT !.buffer = Get(pp.vram, MirrorVramAddr(pp, addr), 0)],
                 val |-> pp.buffer, panic |-> FALSE]
          [] addr >= 12288 /\ addr <= 16127 -> bad
          [] addr \in {16144, 16148, 16152, 16156} ->
                [ppu |-> inc, val |-> Get(pp.palette, addr - 16128 - 16, 0), panic |-> FALSE]
          [] addr >= 16128 /\ addr <= 16383 /\ addr \notin {16144, 16148, 16152, 16156} ->
                IF addr - 16128 < PaletteSize
                THEN [ppu |-> inc, val |-> Get(pp.palette, addr - 16128, 0), panic |-> FALSE]
                ELSE bad
          [] OTHER -> bad

\* Ppu::read_oamdata
ReadOamdata(pp) == Get(pp.oam, pp.oam_addr, 0)

\* Ppu::write_oamdata
WriteOamdata(pp, input) ==
    [pp EXCEPT !.oam = Put(@, pp.oam_addr, input, 0), !.oam_addr = U8(@ + 1)]

\* Ppu::write_oamaddr
WriteOamaddr(pp, addr) == [pp EXCEPT !.oam_addr = addr]

\* the loop of Ppu::write_oamdata_dma over data[from..to], in order; the
\* range is split in halves to bound the depth of the evaluation
RECURSIVE WriteOamdataDmaFrom(_, _, _, _)
WriteOamdataDmaFrom(pp, data, from, to) ==
    IF from > to THEN pp
    ELSE IF from = to THEN WriteOamdata(pp, data[from])
    ELSE Bind(WriteOamdataDmaFrom(pp, data, from, (from + to) \div 2), LAMBDA half :
             WriteOamdataDmaFrom(half, data, (from + to) \div 2 + 1, to))

\* a write_oamdata_dma that starts at OAM address 0
WriteOamdataDma_FromZero(pp, data) ==
    WriteOamdataDmaFrom([pp EXCEPT !.oam_addr = 0], data, 1, Len(data))

\* Ppu::write_oamdata_dma
WriteOamdataDma(pp, data) == WriteOamdataDmaFrom(pp, data, 1, Len(data))

----------------------------------------------------------------------------
(* Controller (controller.rs) *)

\* Controller::new
ControllerNew == [index |-> 0, status |-> 0, strobe |-> FALSE]

\* a read that never advances the index
ControllerRead_NoAdvance(c) ==
    IF c.index > 7 THEN [controller |-> c, val |-> 1]
    ELSE [ controller |-> c,
           val |-> IF HasFlag(c.status, 2 ^ c.index) THEN 1 ELSE 0 ]

\* Controller::read, as [controller, val]
ControllerRead(c) ==
    IF c.index > 7 THEN [controller |-> c, val |-> 1]
    ELSE [ controller |-> IF ~c.strobe /\ c.index <= 7
                          THEN [c EXCEPT !.index = @ + 1] ELSE c,
           val |-> IF HasFlag(c.status, 2 ^ c.index) THEN 1 ELSE 0 ]

\* Controller::write
ControllerWrite(c, data) ==
    IF data = 1 THEN [c EXCEPT !.strobe = TRUE, !.index = 0]
    ELSE [c EXCEPT !.strobe = FALSE]

\* Controller::read_keys: every status bit is set from the key held down
ControllerReadKeys(c, keys) == [c EXCEPT !.status = keys]

----------------------------------------------------------------------------
(* Cartridge ROM (rom.rs) *)

PRG_ROM_PAGE_SIZE == 16384

RomBase == 32768

\* a program ROM of len bytes, all fill except where data says otherwise
Rom(len, fill, data) == [len |-> len, fill |-> fill, data |-> data]

\* Rom::read_byte, as [val, panic]: an index past the image panics
RomReadByte(r, address) ==
    LET addr0 == address - RomBase
        addr  == IF r.len <= PRG_ROM_PAGE_SIZE /\ addr0 >= PRG_ROM_PAGE_SIZE
                 THEN addr0 % PRG_ROM_PAGE_SIZE ELSE addr0
    IN  IF addr < r.len
        THEN [val |-> Get(r.data, addr, r.fill), panic |-> FALSE]
        ELSE [val |-> 0, panic |-> TRUE]

----------------------------------------------------------------------------
(* Bus (bus.rs). A machine m is the mutable state the CPU owns through the  *)
(* bus: [cpu, ram, ppu, controller, bus_cycle, fatal]. A panic sets fatal   *)
(* and every later operation leaves the machine alone.                      *)

RamSize == 2048

Panic(m) == [m EXCEPT !.fatal = TRUE]

\* Bus::tick(cycle: u8) -> bool, as [m, ret, frame]; frame is the value of
\* Ppu::tick that Bus::tick drops
BusTick(m, cycle) ==
    LET before == m.ppu.has_nmi # NmiNone
    IN  Bind(PpuTick(m.ppu, U8(cycle * 3)), LAMBDA t :
            [ m     |-> [m EXCEPT !.bus_cycle = @ + cycle, !.ppu = t.ppu],
              ret   |-> ~before /\ t.ppu.has_nmi # NmiNone,
              frame |-> t.frame ])

\* a take_nmi that reads the flag and leaves it raised
BusTakeNmi_Keep(m) == [m |-> m, ret |-> m.ppu.has_nmi = NmiRaised]

\* Bus::take_nmi, as [m, ret]
BusTakeNmi(m) ==
    [ m   |-> [m EXCEPT !.ppu.has_nmi = NmiNone],
      ret |-> m.ppu.has_nmi = NmiRaised ]

\* Bus::read_keys
BusReadKeys(m, keys) == [m EXCEPT !.controller = ControllerReadKeys(@, keys)]

\* port arms whose write-only ports read as 0
ReadPort_Zero(m, address) ==
    CASE address = 8194 ->
            Bind(ReadPpustatus(m.ppu), LAMBDA r :
                [m |-> [m EXCEPT !.ppu = r.ppu], val |-> r.val])
      [] address = 8196 -> [m |-> m, val |-> ReadOamdata(m.ppu)]
      [] address = 8199 ->
            Bind(ReadData(m.ppu), LAMBDA r :
                IF r.panic THEN [m |-> Panic(m), val |-> 0]
                ELSE [m |-> [m EXCEPT !.ppu = r.ppu], val |-> r.val])
      [] OTHER -> [m |-> m, val |-> 0]

\* the arms of Bus::read_u8 for 0x2000..=0x2007, as [m, val]
ReadPort(m, address) ==
    CASE address = 8194 ->
            Bind(ReadPpustatus(m.ppu), LAMBDA r :
                [m |-> [m EXCEPT !.ppu = r.ppu], val |-> r.val])
      [] address = 8196 -> [m |-> m, val |-> ReadOamdata(m.ppu)]
      [] address = 8199 ->
            Bind(ReadData(m.ppu), LAMBDA r :
                IF r.panic THEN [m |-> Panic(m), val |-> 0]
                ELSE [m |-> [m EXCEPT !.ppu = r.ppu], val |-> r.val])
      [] OTHER -> [m |-> Panic(m), val |-> 0]

\* Bus::read_u8, as [m, val]
ReadU8(m, address) ==
    IF m.fatal THEN [m |-> m, val |-> 0]
    ELSE CASE address <= 8191 ->
                [m |-> m, val |-> Get(m.ram, address % RamSize, 0)]
           [] address >= 8192 /\ address <= 8199 -> ReadPort(m, address)
           [] address >= 8200 /\ address <= 16383 ->
                ReadPort(m, BitAnd(address, 8199))
           [] address = 16404 -> [m |-> Panic(m), val |-> 0]
           [] address = 16406 ->
                Bind(ControllerRead(m.controller), LAMBDA r :
                    [m |-> [m EXCEPT !.controller = r.controller], val |-> r.val])
           [] address = 16407 -> [m |-> m, val |-> 0]
           [] address >= RomBase ->
                Bind(RomReadByte(rom, address), LAMBDA r :
                    IF r.panic THEN [m |-> Panic(m), val |-> 0]
                    ELSE [m |-> m, val |-> r.val])
           [] OTHER -> [m |-> Panic(m), val |-> 0]

\* a read_u16 whose second address is not wrapped to 16 bits
ReadU16_NoWrap(m, address) ==
    Bind(ReadU8(m, U16(address + 0)), LAMBDA lo :
    Bind(ReadU8(lo.m, address + 1), LAMBDA hi :
        [m |-> hi.m, val |-> lo.val + 256 * hi.val]))

\* Bus::read_u16, as [m, val]
ReadU16(m, address) ==
    Bind(ReadU8(m, U16(address + 0)), LAMBDA lo :
    Bind(ReadU8(lo.m, U16(address + 1)), LAMBDA hi :
        [m |-> hi.m, val |-> lo.val + 256 * hi.val]))

RECURSIVE ReadBytesFrom(_, _, _, _, _)
ReadBytesFrom(m, address, size, i, acc) ==
    IF i >= size THEN [m |-> m, val |-> acc]
    ELSE Bind(ReadU8(m, U16(address + i)), LAMBDA r :
         Bind(Append(acc, r.val), LAMBDA more :
             ReadBytesFrom(r.m, address, size, i + 1, more)))

\* Bus::read_bytes, as [m, val]
ReadBytes(m, address, size) == ReadBytesFrom(m, address, size, 0, <<>>)

DmaSize == 256

\* the arms of Bus::write_u8 for 0x2000..=0x2007
WritePort(m, address, data) ==
    CASE address = 8192 -> [m EXCEPT !.ppu = WritePpuctrl(@, data)]
      [] address = 8193 -> [m EXCEPT !.ppu = WritePpumask(@, data)]
      [] address = 8194 -> Panic(m)
      [] address = 8195 -> [m EXCEPT !.ppu = WriteOamaddr(@, data)]
      [] address = 8196 -> [m EXCEPT !.ppu = WriteOamdata(@, data)]
      [] address = 8197 -> [m EXCEPT !.ppu = WriteScrolldata(@, data)]
      [] address = 8198 -> [m EXCEPT !.ppu = WritePpuaddr(@, data)]
      [] address = 8199 ->
            Bind(WritePpudata(m.ppu, data), LAMBDA r :
                IF r.panic THEN Panic(m) ELSE [m EXCEPT !.ppu = r.ppu])

\* the read loop of the 0x4014 arm over start + from .. start + to, in order,
\* as [m, val]; the range is split in halves to bound the depth
RECURSIVE DmaReadFrom(_, _, _, _)
DmaReadFrom(m, start, from, to) ==
    IF from > to THEN [m |-> m, val |-> <<>>]
    ELSE IF from = to
    THEN Bind(ReadU8(m, start + from), LAMBDA r : [m |-> r.m, val |-> <<r.val>>])
    ELSE Bind(DmaReadFrom(m, start, from, (from + to) \div 2), LAMBDA a :
         Bind(DmaReadFrom(a.m, start, (from + to) \div 2 + 1, to), LAMBDA b :
             [m |-> b.m, val |-> a.val \o b.val]))

\* the 0x4014 arm of Bus::write_u8: 256 reads, then Ppu::write_oamdata_dma
WriteDma(m, data) ==
    Bind(DmaReadFrom(m, data * 256, 0, DmaSize - 1), LAMBDA r :
        IF r.m.fatal THEN r.m
        ELSE [r.m EXCEPT !.ppu = WriteOamdataDma(@, r.val)])

\* a write_u8 whose RAM arm does not fold the address
WriteU8_NoMirror(m, address, data) ==
    IF m.fatal THEN m
    ELSE CASE address <= 8191 ->
                [m EXCEPT !.ram = Put(@, address, data, 0)]
           [] address >= 8192 /\ address <= 8199 -> WritePort(m, address, data)
           [] address >= 8200 /\ address <= 16383 ->
                WritePort(m, BitAnd(address, 8199), data)
           [] address >= 16384 /\ address <= 16403 -> m
           [] address = 16404 -> WriteDma(m, data)
           [] address = 16405 -> m
           [] address = 16406 -> [m EXCEPT !.controller = ControllerWrite(@, data)]
           [] address = 16407 -> m
           [] OTHER -> Panic(m)

\* Bus::write_u8
WriteU8(m, address, data) ==
    IF m.fatal THEN m
    ELSE CASE address <= 8191 ->
                [m EXCEPT !.ram = Put(@, address % RamSize, data, 0)]
           [] address >= 8192 /\ address <= 8199 -> WritePort(m, address, data)
           [] address >= 8200 /\ address <= 16383 ->
                WritePort(m, BitAnd(address, 8199), data)
           [] address >= 16384 /\ address <= 16403 -> m
           [] address = 16404 -> WriteDma(m, data)
           [] address = 16405 -> m
           [] address = 16406 -> [m EXCEPT !.controller = ControllerWrite(@, data)]
           [] address = 16407 -> m
           [] OTHER -> Panic(m)

----------------------------------------------------------------------------
(* CPU (cpu.rs) *)

STACK_BYTE_HIGH == 256

\* enum Flag
Carry == 1

Zero == 2

IntDisable == 4

Decimal == 8

Break == 16

Unused == 32

Overflow == 64

Negative == 128

NmiVector == 65530

ResetVector == 65532

\* Cpu::new
CpuNew == [pc |-> 0, sp |-> 0, a |-> 0, x |-> 0, y |-> 0, p |-> 0, cycles |-> 0]

Instruction(opcode, mode, length, cycles) ==
    [opcode |-> opcode, mode |-> mode, length |-> length, cycles |-> cycles]

\* the match of Cpu::decode
DecodeTable ==
  [op \in Byte |->
    CASE op = 105 -> Instruction("Adc", "Immediate", 2, 2)
      [] op = 101 -> Instruction("Adc", "ZeroPage", 2, 3)
      [] op = 117 -> Instruction("Adc", "ZeroPageX", 2, 4)
      [] op = 109 -> Instruction("Adc", "Absolute", 3, 4)
      [] op = 125 -> Instruction("Adc", "AbsoluteX", 3, 4)
      [] op = 121 -> Instruction("Adc", "AbsoluteY", 3, 4)
      [] op = 97 -> Instruction("Adc", "IndirectX", 2, 6)
      [] op = 113 -> Instruction("Adc", "IndirectY", 2, 5)
      [] op = 41 -> Instruction("And", "Immediate", 2, 2)
      [] op = 37 -> Instruction("And", "ZeroPage", 2, 3)
      [] op = 53 -> Instruction("And", "ZeroPageX", 2, 4)
      [] op = 45 -> Instruction("And", "Absolute", 3, 4)
      [] op = 61 -> Instruction("And", "AbsoluteX", 3, 4)
      [] op = 57 -> Instruction("And", "AbsoluteY", 3, 4)
      [] op = 33 -> Instruction("And", "IndirectX", 2, 6)
      [] op = 49 -> Instruction("And", "IndirectY", 2, 5)
      [] op = 10 -> Instruction("Asl", "Accumulator", 1, 2)
      [] op = 6 -> Instruction("Asl", "ZeroPage", 2, 5)
      [] op = 22 -> Instruction("Asl", "ZeroPageX", 2, 6)
      [] op = 14 -> Instruction("Asl", "Absolute", 3, 2)
      [] op = 30 -> Instruction("Asl", "AbsoluteX", 3, 4)
      [] op = 144 -> Instruction("Bcc", "Relative", 2, 2)
      [] op = 176 -> Instruction("Bcs", "Relative", 2, 2)
      [] op = 240 -> Instruction("Beq", "Relative", 2, 2)
      [] op = 48 -> Instruction("Bmi", "Relative", 2, 2)
      [] op = 208 -> Instruction("Bne", "Relative", 2, 2)
      [] op = 16 -> Instruction("Bpl", "Relative", 2, 2)
      [] op = 112 -> Instruction("Bvs", "Relative", 2, 2)
      [] op = 80 -> Instruction("Bvc", "Relative", 2, 2)
      [] op = 36 -> Instruction("Bit", "ZeroPage", 2, 3)
      [] op = 44 -> Instruction("Bit", "Absolute", 3, 4)
      [] op = 0 -> Instruction("Brk", "Implied", 1, 7)
      [] op = 24 -> Instruction("Clc", "Implied", 1, 2)
      [] op = 56 -> Instruction("Sec", "Implied", 1, 2)
      [] op = 88 -> Instruction("Cli", "Implied", 1, 2)
      [] op = 120 -> Instruction("Sei", "Implied", 1, 2)
      [] op = 184 -> Instruction("Clv", "Implied", 1, 2)
      [] op = 216 -> Instruction("Cld", "Implied", 1, 2)
      [] op = 248 -> Instruction("Sed", "Implied", 1, 2)
      [] op = 201 -> Instruction("Cmp", "Immediate", 2, 2)
      [] op = 197 -> Instruction("Cmp", "ZeroPage", 2, 3)
      [] op = 213 -> Instruction("Cmp", "ZeroPageX", 2, 4)
      [] op = 205 -> Instruction("Cmp", "Absolute", 3, 4)
      [] op = 221 -> Instruction("Cmp", "AbsoluteX", 3, 4)
      [] op = 217 -> Instruction("Cmp", "AbsoluteY", 3, 4)
      [] op = 193 -> Instruction("Cmp", "IndirectX", 2, 6)
      [] op = 209 -> Instruction("Cmp", "IndirectY", 2, 5)
      [] op = 224 -> Instruction("Cpx", "Immediate", 2, 2)
      [] op = 228 -> Instruction("Cpx", "ZeroPage", 2, 3)
      [] op = 236 -> Instruction("Cpx", "Absolute", 3, 4)
      [] op = 192 -> Instruction("Cpy", "Immediate", 2, 2)
      [] op = 196 -> Instruction("Cpy", "ZeroPage", 2, 3)
      [] op = 204 -> Instruction("Cpy", "Absolute", 3, 4)
      [] op = 198 -> Instruction("Dec", "ZeroPage", 2, 5)
      [] op = 214 -> Instruction("Dec", "ZeroPageX", 2, 6)
      [] op = 206 -> Instruction("Dec", "Absolute", 3, 6)
      [] op = 222 -> Instruction("Dec", "AbsoluteX", 3, 7)
      [] op = 202 -> Instruction("Dex", "Implied", 1, 2)
      [] op = 136 -> Instruction("Dey", "Implied", 1, 2)
      [] op = 73 -> Instruction("Eor", "Immediate", 2, 2)
      [] op = 69 -> Instruction("Eor", "ZeroPage", 2, 3)
      [] op = 85 -> Instruction("Eor", "ZeroPageX", 2, 4)
      [] op = 77 -> Instruction("Eor", "Absolute", 3, 4)
      [] op = 93 -> Instruction("Eor", "AbsoluteX", 3, 4)
      [] op = 89 -> Instruction("Eor", "AbsoluteY", 3, 4)
      [] op = 65 -> Instruction("Eor", "IndirectX", 2, 6)
      [] op = 81 -> Instruction("Eor", "IndirectY", 2, 5)
      [] op = 230 -> Instruction("Inc", "ZeroPage", 2, 5)
      [] op = 246 -> Instruction("Inc", "ZeroPageX", 2, 6)
      [] op = 238 -> Instruction("Inc", "Absolute", 3, 6)
      [] op = 254 -> Instruction("Inc", "AbsoluteX", 3, 7)
      [] op = 232 -> Instruction("Inx", "Implied", 1, 2)
      [] op = 200 -> Instruction("Iny", "Implied", 1, 2)
      [] op = 76 -> Instruction("Jmp", "Absolute", 3, 3)
      [] op = 108 -> Instruction("Jmp", "Indirect", 3, 5)
      [] op = 169 -> Instruction("Lda", "Immediate", 2, 2)
      [] op = 165 -> Instruction("Lda", "ZeroPage", 2, 3)
      [] op = 181 -> Instruction("Lda", "ZeroPageX", 2, 4)
      [] op = 173 -> Instruction("Lda", "Absolute", 3, 4)
      [] op = 189 -> Instruction("Lda", "AbsoluteX", 3, 4)
      [] op = 185 -> Instruction("Lda", "AbsoluteY", 3, 4)
      [] op = 161 -> Instruction("Lda", "IndirectX", 2, 6)
      [] op = 177 -> Instruction("Lda", "IndirectY", 2, 5)
      [] op = 162 -> Instruction("Ldx", "Immediate", 2, 2)
      [] op = 166 -> Instruction("Ldx", "ZeroPage", 2, 3)
      [] op = 182 -> Instruction("Ldx", "ZeroPageY", 2, 4)
      [] op = 174 -> Instruction("Ldx", "Absolute", 3, 4)
      [] op = 190 -> Instruction("Ldx", "AbsoluteY", 3, 4)
      [] op = 160 -> Instruction("Ldy", "Immediate", 2, 2)
      [] op = 164 -> Instruction("Ldy", "ZeroPage", 2, 3)
      [] op = 180 -> Instruction("Ldy", "ZeroPageX", 2, 4)
      [] op = 172 -> Instruction("Ldy", "Absolute", 3, 4)
      [] op = 188 -> Instruction("Ldy", "AbsoluteX", 3, 4)
      [] op = 9 -> Instruction("Ora", "Immediate", 2, 2)
      [] op = 5 -> Instruction("Ora", "ZeroPage", 2, 3)
      [] op = 21 -> Instruction("Ora", "ZeroPageX", 2, 4)
      [] op = 13 -> Instruction("Ora", "Absolute", 3, 4)
      [] op = 29 -> Instruction("Ora", "AbsoluteX", 3, 4)
      [] op = 25 -> Instruction("Ora", "AbsoluteY", 3, 4)
      [] op = 1 -> Instruction("Ora", "IndirectX", 2, 6)
      [] op = 17 -> Instruction("Ora", "IndirectY", 2, 5)
      [] op = 72 -> Instruction("Pha", "Implied", 1, 3)
      [] op = 8 -> Instruction("Php", "Implied", 1, 3)
      [] op = 104 -> Instruction("Pla", "Implied", 1, 3)
      [] op = 40 -> Instruction("Plp", "Implied", 1, 3)
      [] op = 42 -> Instruction("Rol", "Accumulator", 1, 2)
      [] op = 38 -> Instruction("Rol", "ZeroPage", 2, 5)
      [] op = 54 -> Instruction("Rol", "ZeroPageX", 2, 6)
      [] op = 46 -> Instruction("Rol", "Absolute", 3, 6)
      [] op = 62 -> Instruction("Rol", "AbsoluteX", 3, 7)
      [] op = 106 -> Instruction("Ror", "Accumulator", 1, 2)
      [] op = 102 -> Instruction("Ror", "ZeroPage", 2, 5)
      [] op = 118 -> Instruction("Ror", "ZeroPageX", 2, 6)
      [] op = 110 -> Instruction("Ror", "Absolute", 3, 6)
      [] op = 126 -> Instruction("Ror", "AbsoluteX", 3, 7)
      [] op = 233 -> Instruction("Sbc", "Immediate", 2, 2)
      [] op = 229 -> Instruction("Sbc", "ZeroPage", 2, 3)
      [] op = 245 -> Instruction("Sbc", "ZeroPageX", 2, 4)
      [] op = 237 -> Instruction("Sbc", "Absolute", 3, 4)
      [] op = 253 -> Instruction("Sbc", "AbsoluteX", 3, 4)
      [] op = 249 -> Instruction("Sbc", "AbsoluteY", 3, 4)
      [] op = 225 -> Instruction("Sbc", "IndirectX", 2, 6)
      [] op = 241 -> Instruction("Sbc", "IndirectY", 2, 5)
      [] op = 133 -> Instruction("Sta", "ZeroPage", 2, 3)
      [] op = 149 -> Instruction("Sta", "ZeroPageX", 2, 4)
      [] op = 141 -> Instruction("Sta", "Absolute", 3, 4)
      [] op = 157 -> Instruction("Sta", "AbsoluteX", 3, 5)
      [] op = 153 -> Instruction("Sta", "AbsoluteY", 3, 5)
      [] op = 129 -> Instruction("Sta", "IndirectX", 2, 6)
      [] op = 145 -> Instruction("Sta", "IndirectY", 2, 6)
      [] op = 134 -> Instruction("Stx", "ZeroPage", 2, 3)
      [] op = 150 -> Instruction("Stx", "ZeroPageY", 2, 4)
      [] op = 142 -> Instruction("Stx", "Absolute", 3, 4)
      [] op = 132 -> Instruction("Sty", "ZeroPage", 2, 3)
      [] op = 148 -> Instruction("Sty", "ZeroPageX", 2, 4)
      [] op = 140 -> Instruction("Sty", "Absolute", 3, 4)
      [] op = 170 -> Instruction("Tax", "Implied", 1, 2)
      [] op = 168 -> Instruction("Tay", "Implied", 1, 2)
      [] op = 186 -> Instruction("Tsx", "Implied", 1, 2)
      [] op = 138 -> Instruction("Txa", "Implied", 1, 2)
      [] op = 154 -> Instruction("Txs", "Implied", 1, 2)
      [] op = 152 -> Instruction("Tya", "Implied", 1, 2)
      [] op = 32 -> Instruction("Jsr", "Absolute", 3, 6)
      [] op = 96 -> Instruction("Rts", "Implied", 1, 6)
      [] op = 64 -> Instruction("Rti", "Implied", 1, 6)
      [] op = 74 -> Instruction("Lsr", "Accumulator", 1, 2)
      [] op = 70 -> Instruction("Lsr", "ZeroPage", 2, 5)
      [] op = 86 -> Instruction("Lsr", "ZeroPageX", 2, 6)
      [] op = 78 -> Instruction("Lsr", "Absolute", 3, 6)
      [] op = 94 -> Instruction("Lsr", "AbsoluteX", 3, 7)
      [] op = 2 -> Instruction("Kil", "Implied", 1, 1)
      [] op = 18 -> Instruction("Kil", "Implied", 1, 1)
      [] op = 34 -> Instruction("Kil", "Implied", 1, 1)
      [] op = 50 -> Instruction("Kil", "Implied", 1, 1)
      [] op = 66 -> Instruction("Kil", "Implied", 1, 1)
      [] op = 82 -> Instruction("Kil", "Implied", 1, 1)
      [] op = 98 -> Instruction("Kil", "Implied", 1, 1)
      [] op = 114 -> Instruction("Kil", "Implied", 1, 1)
      [] op = 146 -> Instruction("Kil", "Implied", 1, 1)
      [] op = 178 -> Instruction("Kil", "Implied", 1, 1)
      [] op = 210 -> Instruction("Kil", "Implied", 1, 1)
      [] op = 242 -> Instruction("Kil", "Implied", 1, 1)
      [] op = 26 -> Instruction("Nop", "Implied", 2, 1)
      [] op = 58 -> Instruction("Nop", "Implied", 2, 1)
      [] op = 90 -> Instruction("Nop", "Implied", 2, 1)
      [] op = 122 -> Instruction("Nop", "Implied", 2, 1)
      [] op = 218 -> Instruction("Nop", "Implied", 2, 1)
      [] op = 250 -> Instruction("Nop", "Implied", 2, 1)
      [] OTHER -> Instruction("Nop", "Implied", 1, 1)
  ]

\* Cpu::decode
Decode(op) == DecodeTable[op]

\* Cpu::set_flag, Cpu::clear_flag, Cpu::change_flag
SetFlag(m, flag) == [m EXCEPT !.cpu.p = WithFlag(@, flag)]

ClearFlag(m, flag) == [m EXCEPT !.cpu.p = WithoutFlag(@, flag)]

ChangeFlag(m, flag, value) == IF value THEN SetFlag(m, flag) ELSE ClearFlag(m, flag)

\* a set_zero_negative_flags that takes N from value > 0x80
SetZeroNegativeFlags_Above(m, value) ==
    ChangeFlag(ChangeFlag(m, Zero, value = 0), Negative, value > 128)

\* Cpu::set_zero_negative_flags
SetZeroNegativeFlags(m, value) ==
    ChangeFlag(ChangeFlag(m, Zero, value = 0), Negative, HasFlag(value, 128))

\* Cpu::stack_push_u8
StackPushU8(m, value) ==
    IF m.fatal THEN m
    ELSE [WriteU8(m, STACK_BYTE_HIGH + m.cpu.sp, value) EXCEPT !.cpu.sp = U8(@ + 255)]

\* a stack_push_u16 that pushes the low byte first
StackPushU16_LowFirst(m, value) ==
    Bind(StackPushU8(m, Lo(value)), LAMBDA low : StackPushU8(low, Hi(value)))

\* Cpu::stack_push_u16
StackPushU16(m, value) ==
    Bind(StackPushU8(m, Hi(value)), LAMBDA high : StackPushU8(high, Lo(value)))

\* a stack_pop_u8 that reads before it increments SP
StackPopU8_PostIncrement(m) ==
    IF m.fatal THEN [m |-> m, val |-> 0]
    ELSE Bind(ReadU8(m, STACK_BYTE_HIGH + m.cpu.sp), LAMBDA r :
             [m |-> [r.m EXCEPT !.cpu.sp = U8(@ + 1)], val |-> r.val])

\* Cpu::stack_pop_u8, as [m, val]
StackPopU8(m) ==
    IF m.fatal THEN [m |-> m, val |-> 0]
    ELSE Bind([m EXCEPT !.cpu.sp = U8(@ + 1)], LAMBDA inc :
             ReadU8(inc, STACK_BYTE_HIGH + inc.cpu.sp))

\* Cpu::stack_pop_u16, as [m, val]
StackPopU16(m) ==
    Bind(StackPopU8(m), LAMBDA lsb :
    Bind(StackPopU8(lsb.m), LAMBDA msb :
        [m |-> msb.m, val |-> msb.val * 256 + lsb.val]))

\* an add_to_a that ignores the carry flag on the way in
AddToA_NoCarryIn(m, operand) ==
    Bind(m.cpu.a + operand, LAMBDA result :
    Bind(ChangeFlag(m, Carry, result > 255), LAMBDA c :
    Bind(ChangeFlag(c, Overflow,
                    BitAnd(BitAnd(BitXor(operand, U8(result)),
                                  BitXor(m.cpu.a, U8(result))), 128) # 0), LAMBDA v :
        SetZeroNegativeFlags([v EXCEPT !.cpu.a = U8(result)], U8(result)))))

\* Cpu::add_to_a
AddToA(m, operand) ==
    Bind(m.cpu.a + operand + (IF HasFlag(m.cpu.p, Carry) THEN 1 ELSE 0), LAMBDA result :
    Bind(ChangeFlag(m, Carry, result > 255), LAMBDA c :
    Bind(ChangeFlag(c, Overflow,
                    BitAnd(BitAnd(BitXor(operand, U8(result)),
                                  BitXor(m.cpu.a, U8(result))), 128) # 0), LAMBDA v :
        SetZeroNegativeFlags([v EXCEPT !.cpu.a = U8(result)], U8(result)))))

\* InstructionBytes::get_offset: the operand byte as i8
GetOffset(bytes) == IF bytes[2] >= 128 THEN bytes[2] - 256 ELSE bytes[2]

\* a branch that adds the offset byte unsigned
Branch_Unsigned(m, bytes, condition) ==
    IF Len(bytes) # 2 THEN [m |-> Panic(m), new_pc |-> 0]
    ELSE [m |-> m,
          new_pc |-> IF condition THEN U16(U16(m.cpu.pc + Len(bytes)) + bytes[2])
                     ELSE U16(m.cpu.pc + Len(bytes))]

\* Cpu::branch, as [m, new_pc]
Branch(m, bytes, condition) ==
    IF condition /\ Len(bytes) # 2 THEN [m |-> Panic(m), new_pc |-> 0]
    ELSE [m |-> m,
          new_pc |-> IF condition
                     THEN U16(U16(m.cpu.pc + Len(bytes)) + 65536 + GetOffset(bytes))
                     ELSE U16(m.cpu.pc + Len(bytes))]

\* Cpu::nmi, as [m, val]
Nmi(m) ==
    Bind(StackPushU16(m, m.cpu.pc), LAMBDA pushed_pc :
    Bind(SetFlag(ClearFlag(pushed_pc, Break), Unused), LAMBDA working :
    Bind(StackPushU8(working, working.cpu.p), LAMBDA pushed_p :
    Bind(SetFlag(pushed_p, IntDisable), LAMBDA masked :
    Bind(ReadU16(masked, NmiVector), LAMBDA vector :
        IF vector.m.fatal THEN [m |-> vector.m, val |-> 0]
        ELSE [m |-> [vector.m EXCEPT !.cpu.pc = vector.val], val |-> vector.val])))))

\* Cpu::reset
Reset(m) ==
    Bind(ReadU16([m EXCEPT !.cpu.a = 0, !.cpu.x = 0, !.cpu.p = 36], ResetVector),
         LAMBDA vector :
        IF vector.m.fatal THEN vector.m
        ELSE [vector.m EXCEPT !.cpu.pc = vector.val, !.cpu.sp = 253])

\* InstructionBytes::get_address, get_immediate: the asserts on bytes.len()
\* panic, which the callers below turn into a fatal machine
GetAddress(bytes) == FromLeBytes(bytes[2], bytes[3])

GetImmediate(bytes) == bytes[2]

\* an Indirect arm that always reads the high byte at addr + 1
IndirectAddress_NextByte(m, addr) == ReadU16(m, addr)

\* the Indirect arm of Cpu::get_operand_address
IndirectAddress(m, addr) ==
    IF Lo(addr) = 255
    THEN Bind(ReadU8(m, addr), LAMBDA lsb :
         Bind(ReadU8(lsb.m, addr - 255), LAMBDA msb :
             [m |-> msb.m, val |-> lsb.val + 256 * msb.val]))
    ELSE ReadU16(m, addr)

\* the IndirectX and IndirectY arms: a pointer in the zero page, plus index
ZeroPagePointer(m, addr, index) ==
    Bind(ReadU8(m, addr), LAMBDA lsb :
    Bind(ReadU8(lsb.m, U8(addr + 1)), LAMBDA msb :
        [m |-> msb.m, val |-> U16(lsb.val + 256 * msb.val + index)]))

\* Cpu::get_operand_address, as [m, val]
GetOperandAddress(m, ins, bytes) ==
    LET mode == ins.mode
        need == IF mode \in {"Absolute", "AbsoluteX", "AbsoluteY", "Indirect"} THEN 3
                ELSE IF mode \in {"ZeroPage", "ZeroPageX", "ZeroPageY",
                                  "IndirectX", "IndirectY"} THEN 2
                ELSE 0
    IN  IF m.fatal THEN [m |-> m, val |-> 0]
        ELSE IF Len(bytes) # need THEN [m |-> Panic(m), val |-> 0]
        ELSE CASE mode = "ZeroPage"  -> [m |-> m, val |-> GetImmediate(bytes)]
               [] mode = "ZeroPageX" -> [m |-> m, val |-> U8(GetImmediate(bytes) + m.cpu.x)]
               [] mode = "ZeroPageY" -> [m |-> m, val |-> U8(GetImmediate(bytes) + m.cpu.y)]
               [] mode = "Absolute"  -> [m |-> m, val |-> GetAddress(bytes)]
               [] mode = "AbsoluteX" -> [m |-> m, val |-> U16(GetAddress(bytes) + m.cpu.x)]
               [] mode = "AbsoluteY" -> [m |-> m, val |-> U16(GetAddress(bytes) + m.cpu.y)]
               [] mode = "Indirect"  -> IndirectAddress(m, GetAddress(bytes))
               [] mode = "IndirectX" ->
                    ZeroPagePointer(m, U8(GetImmediate(bytes) + m.cpu.x), 0)
               [] mode = "IndirectY" ->
                    ZeroPagePointer(m, GetImmediate(bytes), m.cpu.y)

\* Cpu::get_operand, as [m, val]
GetOperand(m, ins, bytes) ==
    CASE ins.mode = "Immediate" ->
            IF Len(bytes) # 2 THEN [m |-> Panic(m), val |-> 0]
            ELSE [m |-> m, val |-> GetImmediate(bytes)]
      [] ins.mode = "Accumulator" -> [m |-> m, val |-> m.cpu.a]
      [] OTHER ->
            Bind(GetOperandAddress(m, ins, bytes), LAMBDA addr :
                ReadU8(addr.m, addr.val))

\* the opcodes whose arm of Cpu::execute is modelled below
ModelledOpcodes ==
    { "Nop", "Brk", "Rti", "Jsr", "Rts", "Jmp", "Kil",
      "Lda", "Ldx", "Ldy", "Sta", "Stx", "Sty",
      "Tax", "Tay", "Tsx", "Txa", "Txs", "Tya",
      "Pha", "Php", "Pla", "Plp",
      "Adc", "Sbc", "Bcc", "Bcs", "Bvc", "Bvs", "Bne", "Beq", "Bpl", "Bmi",
      "Inx", "Iny", "Dex", "Dey",
      "And", "Eor", "Ora", "Asl", "Lsr", "Rol", "Ror",
      "Clc", "Sec", "Cli", "Sei", "Clv", "Cld", "Sed" }

\* Cpu::execute, Opcode::Brk: new_pc = self.nmi()
ExecBrk(m, new_pc) ==
    Bind(Nmi(m), LAMBDA r : [m |-> r.m, new_pc |-> r.val])

\* Cpu::execute, Opcode::Rti: self.pc is assigned here, new_pc is left alone
ExecRti(m, new_pc) ==
    Bind(StackPopU8(m), LAMBDA popped_p :
    Bind(StackPopU16([popped_p.m EXCEPT !.cpu.p = popped_p.val]), LAMBDA popped_pc :
    Bind([popped_pc.m EXCEPT !.cpu.pc = popped_pc.val], LAMBDA with_pc :
        [m |-> SetFlag(ClearFlag(with_pc, Break), Unused), new_pc |-> new_pc])))

\* Cpu::execute, Opcode::Jsr
ExecJsr(m, ins, bytes, new_pc) ==
    Bind(GetOperandAddress(m, ins, bytes), LAMBDA tgt_addr :
        [m |-> StackPushU16(tgt_addr.m, U16(m.cpu.pc + 2)), new_pc |-> tgt_addr.val])

\* an Rts that loads the popped address itself
ExecRts_NoIncrement(m, new_pc) ==
    Bind(StackPopU16(m), LAMBDA popped : [m |-> popped.m, new_pc |-> popped.val])

\* Cpu::execute, Opcode::Rts
ExecRts(m, new_pc) ==
    Bind(StackPopU16(m), LAMBDA popped :
        [m |-> popped.m, new_pc |-> U16(popped.val + 1)])

\* Cpu::execute, Opcode::Jmp
ExecJmp(m, ins, bytes, new_pc) ==
    Bind(GetOperandAddress(m, ins, bytes), LAMBDA addr :
        [m |-> addr.m, new_pc |-> addr.val])

\* Cpu::execute, the loads Lda, Ldx, Ldy
ExecLoad(m, ins, bytes, reg) ==
    Bind(GetOperand(m, ins, bytes), LAMBDA v :
    Bind(CASE reg = "a" -> [v.m EXCEPT !.cpu.a = v.val]
           [] reg = "x" -> [v.m EXCEPT !.cpu.x = v.val]
           [] reg = "y" -> [v.m EXCEPT !.cpu.y = v.val], LAMBDA w :
        SetZeroNegativeFlags(w, v.val)))

\* Cpu::execute, the stores Sta, Stx, Sty
ExecStore(m, ins, bytes, value) ==
    Bind(GetOperandAddress(m, ins, bytes), LAMBDA addr :
        WriteU8(addr.m, addr.val, value))

\* Cpu::execute, Opcode::Adc
ExecAdc(m, ins, bytes) ==
    Bind(GetOperand(m, ins, bytes), LAMBDA operand :
        IF operand.m.fatal THEN operand.m ELSE AddToA(operand.m, operand.val))

\* Cpu::execute, Opcode::Sbc: the operand as i8, negated, minus 1, as u8
ExecSbc(m, ins, bytes) ==
    Bind(GetOperand(m, ins, bytes), LAMBDA operand :
        IF operand.m.fatal THEN operand.m
        ELSE AddToA(operand.m, U8(U8(256 - operand.val) + 255)))

\* Cpu::execute, the eight branch arms
ExecBranch(m, ins, bytes) ==
    LET o == ins.opcode
    IN  CASE o = "Bcc" -> Branch(m, bytes, ~HasFlag(m.cpu.p, Carry))
          [] o = "Bcs" -> Branch(m, bytes, HasFlag(m.cpu.p, Carry))
          [] o = "Bvc" -> Branch(m, bytes, ~HasFlag(m.cpu.p, Overflow))
          [] o = "Bvs" -> Branch(m, bytes, HasFlag(m.cpu.p, Overflow))
          [] o = "Bne" -> Branch(m, bytes, ~HasFlag(m.cpu.p, Zero))
          [] o = "Beq" -> Branch(m, bytes, HasFlag(m.cpu.p, Zero))
          [] o = "Bpl" -> Branch(m, bytes, ~HasFlag(m.cpu.p, Negative))
          [] o = "Bmi" -> Branch(m, bytes, HasFlag(m.cpu.p, Negative))

\* Cpu::execute, Opcode::Pla
ExecPla(m) ==
    Bind(StackPopU8(m), LAMBDA popped :
        SetZeroNegativeFlags([popped.m EXCEPT !.cpu.a = popped.val], popped.val))

\* a Plp that keeps the Break bit of the popped byte
ExecPlp_KeepBreak(m) ==
    Bind(StackPopU8(m), LAMBDA popped :
        SetFlag([popped.m EXCEPT !.cpu.p = popped.val], Unused))

\* Cpu::execute, Opcode::Plp
ExecPlp(m) ==
    Bind(StackPopU8(m), LAMBDA popped :
        SetFlag(ClearFlag([popped.m EXCEPT !.cpu.p = popped.val], Break), Unused))

\* Cpu::execute, Opcode::Php
ExecPhp(m) == StackPushU8(m, WithFlag(WithFlag(m.cpu.p, Break), Unused))

\* a | b on bytes
BitOr(a, b) == a + b - BitAnd(a, b)

\* Cpu::execute, the arms And, Eor, Ora
ExecLogic(m, ins, bytes) ==
    Bind(GetOperand(m, ins, bytes), LAMBDA v :
    Bind(CASE ins.opcode = "And" -> BitAnd(m.cpu.a, v.val)
           [] ins.opcode = "Eor" -> BitXor(m.cpu.a, v.val)
           [] ins.opcode = "Ora" -> BitOr(m.cpu.a, v.val), LAMBDA res :
        SetZeroNegativeFlags([v.m EXCEPT !.cpu.a = res], res)))

\* u16::rotate_left(1) and u16::rotate_right(1)
RotateLeft16(x) == ((x * 2) % 65536) + (x \div 32768)

RotateRight16(x) == (x \div 2) + ((x % 2) * 32768)

\* a set_result that always writes the accumulator
SetResult_ToA(m, ins, bytes, result) == [m EXCEPT !.cpu.a = result]

\* Cpu::set_result
SetResult(m, ins, bytes, result) ==
    IF ins.mode = "Accumulator" THEN [m EXCEPT !.cpu.a = result]
    ELSE Bind(GetOperandAddress(m, ins, bytes), LAMBDA addr :
             WriteU8(addr.m, addr.val, result))

\* Cpu::shift_left, as [val, carry]: the input shifted right and its bit 0
ShiftLeft(input) == [val |-> input \div 2, carry |-> input % 2 = 1]

\* Cpu::execute, Opcode::Asl
ExecAsl(m, ins, bytes) ==
    Bind(GetOperand(m, ins, bytes), LAMBDA op :
    Bind(BitAnd(U8(RotateLeft16(op.val)), 254), LAMBDA result :
    Bind(SetZeroNegativeFlags(ChangeFlag(op.m, Carry, BitAnd(op.val, 128) # 0),
                              result), LAMBDA flagged :
        IF ins.mode = "Accumulator" THEN [flagged EXCEPT !.cpu.a = result]
        ELSE Bind(GetOperandAddress(flagged, ins, bytes), LAMBDA addr :
                 WriteU8(addr.m, addr.val, result)))))

\* Cpu::execute, Opcode::Rol
ExecRol(m, ins, bytes) ==
    Bind(IF HasFlag(m.cpu.p, Carry) THEN 1 ELSE 0, LAMBDA carry_in :
    Bind(GetOperand(m, ins, bytes), LAMBDA op :
    Bind(BitOr(U8(RotateLeft16(op.val)), carry_in), LAMBDA result :
        SetResult(SetZeroNegativeFlags(
                      ChangeFlag(op.m, Carry, BitAnd(op.val, 128) # 0), result),
                  ins, bytes, result))))

\* Cpu::execute, Opcode::Ror
ExecRor(m, ins, bytes) ==
    Bind(IF HasFlag(m.cpu.p, Carry) THEN 128 ELSE 0, LAMBDA carry_in :
    Bind(GetOperand(m, ins, bytes), LAMBDA op :
    Bind(BitOr(U8(RotateRight16(op.val)), carry_in), LAMBDA result :
        SetResult(SetZeroNegativeFlags(
                      ChangeFlag(op.m, Carry, BitAnd(op.val, 1) # 0), result),
                  ins, bytes, result))))

\* Cpu::execute, Opcode::Lsr
ExecLsr(m, ins, bytes) ==
    IF ins.mode = "Accumulator"
    THEN Bind(ShiftLeft(m.cpu.a), LAMBDA s :
             SetZeroNegativeFlags(
                 ChangeFlag([m EXCEPT !.cpu.a = s.val], Carry, s.carry), s.val))
    ELSE Bind(GetOperandAddress(m, ins, bytes), LAMBDA addr :
         Bind(ReadU8(addr.m, addr.val), LAMBDA value :
         Bind(ShiftLeft(value.val), LAMBDA s :
             SetZeroNegativeFlags(
                 ChangeFlag(WriteU8(value.m, addr.val, s.val), Carry, s.carry),
                 s.val))))

\* Cpu::execute, the arms that leave new_pc alone
ExecSimple(m, ins, bytes) ==
    LET o == ins.opcode
    IN  CASE o = "Nop" -> m
          [] o = "Kil" -> Panic(m)
          [] o = "Lda" -> ExecLoad(m, ins, bytes, "a")
          [] o = "Ldx" -> ExecLoad(m, ins, bytes, "x")
          [] o = "Ldy" -> ExecLoad(m, ins, bytes, "y")
          [] o = "Sta" -> ExecStore(m, ins, bytes, m.cpu.a)
          [] o = "Stx" -> ExecStore(m, ins, bytes, m.cpu.x)
          [] o = "Sty" -> ExecStore(m, ins, bytes, m.cpu.y)
          [] o = "Tax" -> SetZeroNegativeFlags([m EXCEPT !.cpu.x = m.cpu.a], m.cpu.a)
          [] o = "Tay" -> SetZeroNegativeFlags([m EXCEPT !.cpu.y = m.cpu.a], m.cpu.a)
          [] o = "Tsx" -> SetZeroNegativeFlags([m EXCEPT !.cpu.x = m.cpu.sp], m.cpu.sp)
          [] o = "Txa" -> SetZeroNegativeFlags([m EXCEPT !.cpu.a = m.cpu.x], m.cpu.x)
          [] o = "Tya" -> SetZeroNegativeFlags([m EXCEPT !.cpu.a = m.cpu.y], m.cpu.y)
          [] o = "Txs" -> [m EXCEPT !.cpu.sp = m.cpu.x]
          [] o \in {"And", "Eor", "Ora"} -> ExecLogic(m, ins, bytes)
          [] o = "Asl" -> ExecAsl(m, ins, bytes)
          [] o = "Rol" -> ExecRol(m, ins, bytes)
          [] o = "Ror" -> ExecRor(m, ins, bytes)
          [] o = "Lsr" -> ExecLsr(m, ins, bytes)
          [] o = "Adc" -> ExecAdc(m, ins, bytes)
          [] o = "Sbc" -> ExecSbc(m, ins, bytes)
          [] o = "Pha" -> StackPushU8(m, m.cpu.a)
          [] o = "Php" -> ExecPhp(m)
          [] o = "Pla" -> ExecPla(m)
          [] o = "Plp" -> ExecPlp(m)
          [] o = "Inx" -> SetZeroNegativeFlags([m EXCEPT !.cpu.x = U8(@ + 1)], U8(m.cpu.x + 1))
          [] o = "Iny" -> SetZeroNegativeFlags([m EXCEPT !.cpu.y = U8(@ + 1)], U8(m.cpu.y + 1))
          [] o = "Dex" -> SetZeroNegativeFlags([m EXCEPT !.cpu.x = U8(@ + 255)], U8(m.cpu.x + 255))
          [] o = "Dey" -> SetZeroNegativeFlags([m EXCEPT !.cpu.y = U8(@ + 255)], U8(m.cpu.y + 255))
          [] o = "Clc" -> ClearFlag(m, Carry)
          [] o = "Sec" -> SetFlag(m, Carry)
          [] o = "Cli" -> ClearFlag(m, IntDisable)
          [] o = "Sei" -> SetFlag(m, IntDisable)
          [] o = "Clv" -> ClearFlag(m, Overflow)
          [] o = "Cld" -> ClearFlag(m, Decimal)
          [] o = "Sed" -> SetFlag(m, Decimal)

\* Cpu::execute: the match, as [m, new_pc]
ExecuteArm(m, ins, bytes, new_pc) ==
    LET o == ins.opcode
    IN  CASE o = "Brk" -> ExecBrk(m, new_pc)
          [] o = "Rti" -> ExecRti(m, new_pc)
          [] o = "Jsr" -> ExecJsr(m, ins, bytes, new_pc)
          [] o = "Rts" -> ExecRts(m, new_pc)
          [] o = "Jmp" -> ExecJmp(m, ins, bytes, new_pc)
          [] o \in {"Bcc", "Bcs", "Bvc", "Bvs", "Bne", "Beq", "Bpl", "Bmi"} ->
                ExecBranch(m, ins, bytes)
          [] OTHER     -> [m |-> ExecSimple(m, ins, bytes), new_pc |-> new_pc]

\* Cpu::execute
Execute(m, ins, bytes) ==
    IF m.fatal THEN m
    ELSE Bind(ExecuteArm(m, ins, bytes, U16(m.cpu.pc + ins.length)), LAMBDA r :
             IF r.m.fatal THEN r.m ELSE [r.m EXCEPT !.cpu.pc = r.new_pc])

\* Cpu::step, as [m, ret, ins, ticked]: ticked is the result of the
\* Bus::tick that step makes before it executes the instruction
Step(m) ==
    Bind(ReadU8(m, m.cpu.pc), LAMBDA op :
    Bind(Decode(op.val), LAMBDA ins :
    Bind(ReadBytes(op.m, m.cpu.pc, ins.length), LAMBDA bytes :
    Bind(IF bytes.m.fatal THEN [m |-> bytes.m, ret |-> FALSE, frame |-> FALSE]
         ELSE BusTick([bytes.m EXCEPT !.cpu.cycles = @ + ins.cycles], ins.cycles),
         LAMBDA ticked :
        [ m      |-> Execute(ticked.m, ins, bytes.val),
          ret    |-> ins.cycles,
          ins    |-> ins,
          ticked |-> ticked ]))))

----------------------------------------------------------------------------
(* The machine as state *)

M == [ cpu |-> cpu, ram |-> ram, ppu |-> ppu, controller |-> controller,
       bus_cycle |-> bus_cycle, fatal |-> fatal ]

Commit(m) ==
    /\ cpu' = m.cpu
    /\ ram' = m.ram
    /\ ppu' = m.ppu
    /\ controller' = m.controller
    /\ bus_cycle' = m.bus_cycle
    /\ fatal' = m.fatal
    /\ rom' = rom

\* what the last operation was: its name, the instruction it decoded, the
\* registers it started from, what it returned, and the same for the
\* operation before it
NoLast ==
    [ op |-> "init", opcode |-> "", cycles |-> 0,
      pc |-> 0, sp |-> 0, p |-> 0,
      ret |-> FALSE, frame |-> FALSE, frames |-> 0, raised |-> FALSE, render |-> FALSE,
      address |-> 0, data |-> 0, val |-> 0,
      addr_reset |-> "no", scroll_reset |-> "no", reset_was |-> "no",
      addr_n |-> 0, scroll_n |-> 0, hi |-> -1,
      wrote |-> -1, wdata |-> 0,
      nreads |-> -1, snap |-> -1,
      prev_op |-> "init", prev_opcode |-> "", prev_pc |-> 0, prev_sp |-> 0 ]

Began(op) ==
    [ NoLast EXCEPT !.op = op, !.pc = cpu.pc, !.sp = cpu.sp, !.p = cpu.p,
                    !.prev_op = last.op, !.prev_opcode = last.opcode,
                    !.prev_pc = last.pc, !.prev_sp = last.sp ]

\* Bus::new
BusNew(prg) ==
    [ cpu |-> CpuNew, ram |-> Empty, ppu |-> PpuNew([len |-> 0, data |-> Empty], FALSE),
      controller |-> ControllerNew, bus_cycle |-> 0, fatal |-> FALSE ]

\* assembles the bytes of a sequence at a CPU address of the program ROM
At(address, bytes) ==
    [i \in {address - RomBase + k - 1 : k \in {j \in 1..Len(bytes) : bytes[j] # 0}}
        |-> bytes[i - (address - RomBase) + 1]]

----------------------------------------------------------------------------
(* The CPU on its own, driven as the unit tests drive it: registers and    *)
(* stack bytes are assigned, then step, nmi and reset are called.          *)

MaxOps == 4

\* 8000 JSR $9000 / 8003 LDY #$05 / 8005 LDX #$01 / 8007 TXS / 8008 BRK
\* 9000 RTS / A000 RTI; vectors NMI = A000, reset = 8000
CpuRomA ==
    Rom(32768, 0,
        At(32768, <<32, 0, 144, 160, 5, 162, 1, 154, 0>>) @@ At(36864, <<96>>)
        @@ At(40960, <<64>>) @@ At(65530, <<0, 160, 0, 128>>))

\* FFFD JSR $9000 (the instruction ends at the top of the address space)
\* 9000 RTS; vector NMI = A000; 16 KiB image folded at 0xC000
CpuRomB ==
    Rom(16384, 0,
        At(36864, <<96>>) @@ At(40960, <<64>>)
        @@ At(32768 + 16378, <<0, 160, 0, 32, 0, 144>>))

CpuRoms == {CpuRomA, CpuRomB}

StartPcs == {32768, 32771, 40960, 65533}

StartSps == {253, 1, 0}

StartPs == {36, 231, 0}

\* stack bytes an earlier push left: 01FE = FF, 01FF = 34, 0100 = 12
StartRams == {Empty, (510 :> 255) @@ (511 :> 52) @@ (256 :> 18)}

InitCpu ==
    /\ rom \in CpuRoms
    /\ \E pc0 \in StartPcs, sp0 \in StartSps, p0 \in StartPs :
          cpu = [CpuNew EXCEPT !.pc = pc0, !.sp = sp0, !.p = p0]
    /\ ram \in StartRams
    /\ ppu = BusNew(rom).ppu
    /\ controller = ControllerNew
    /\ bus_cycle = 0
    /\ fatal = FALSE
    /\ last = NoLast
    /\ ops = 0

\* cpu.step()
CpuStep ==
    /\ ~fatal /\ ops < MaxOps
    /\ \E r \in {Step(M)} :
           /\ r.ins.opcode \in ModelledOpcodes
           /\ Commit(r.m)
           /\ last' = [Began("step") EXCEPT !.opcode = r.ins.opcode,
                                            !.cycles = r.ret,
                                            !.ret = r.ticked.ret,
                                            !.frame = r.ticked.frame]
    /\ ops' = ops + 1

\* cpu.nmi()
CpuNmi ==
    /\ ~fatal /\ ops < MaxOps
    /\ \E r \in {Nmi(M)} : Commit(r.m)
    /\ last' = Began("nmi")
    /\ ops' = ops + 1

\* cpu.reset()
CpuReset ==
    /\ ~fatal /\ ops < MaxOps
    /\ \E m \in {Reset(M)} : Commit(m)
    /\ last' = Began("reset")
    /\ ops' = ops + 1

NextCpu == CpuStep \/ CpuNmi \/ CpuReset

SpecCpu == InitCpu /\ [][NextCpu]_vars

----------------------------------------------------------------------------
(* Properties of the CPU *)

\* the 16-bit little-endian vector the program ROM holds at an address
RomVector(address) ==
    FromLeBytes(RomReadByte(rom, address).val, RomReadByte(rom, address + 1).val)

\* the byte of the stack page at stack pointer s (modulo 256)
StackByte(r, s) == Get(r, STACK_BYTE_HIGH + U8(s), 0)

\* C1: reset, called from any CPU state, leaves A = X = Y = 0, P = 0x24,
\* SP = 0xFD and PC = the vector at 0xFFFC/0xFFFD.
C1_ResetRegisters ==
    (last.op = "reset" /\ ~fatal) =>
        /\ cpu.a = 0 /\ cpu.x = 0 /\ cpu.y = 0
        /\ cpu.p = 36 /\ cpu.sp = 253
        /\ cpu.pc = RomVector(ResetVector)

\* C2: RTI pops P (B cleared, U set), then a 16-bit value low byte first;
\* afterwards PC is exactly that value and SP has grown by 3 modulo 256.
C2_RtiReturns ==
    [][ (last'.op = "step" /\ last'.opcode = "Rti" /\ ~fatal') =>
            /\ cpu'.p = WithFlag(WithoutFlag(StackByte(ram, cpu.sp + 1), Break), Unused)
            /\ cpu'.pc = FromLeBytes(StackByte(ram, cpu.sp + 2), StackByte(ram, cpu.sp + 3))
            /\ cpu'.sp = U8(cpu.sp + 3) ]_vars

\* C7: NMI entry (also what BRK executes) from program counter p and stack
\* pointer s writes high(p) at 0x0100|s, low(p) at 0x0100|(s-1) and P with B
\* cleared and U set at 0x0100|(s-2), leaves SP = s-3 modulo 256, sets I in
\* the live P and loads PC from the vector at 0xFFFA/0xFFFB.
C7_NmiEntry ==
    [][ ( /\ last'.op = "nmi" \/ (last'.op = "step" /\ last'.opcode = "Brk")
          /\ ~fatal' ) =>
            /\ StackByte(ram', cpu.sp) = Hi(cpu.pc)
            /\ StackByte(ram', cpu.sp + 255) = Lo(cpu.pc)
            /\ StackByte(ram', cpu.sp + 254) = WithFlag(WithoutFlag(cpu.p, Break), Unused)
            /\ cpu'.sp = U8(cpu.sp + 253)
            /\ HasFlag(cpu'.p, IntDisable)
            /\ cpu'.pc = RomVector(NmiVector) ]_vars

\* C7 witness: a BRK whose three pushes wrap the stack pointer
C7_Witness ==
    /\ ~fatal
    /\ last.op = "step" /\ last.opcode = "Brk" /\ last.sp = 1
    /\ cpu.sp = 254 /\ cpu.pc = 40960

\* an RTI executed right after an NMI entry made with B clear and U set
RtiAfterNmi ==
    /\ last'.op = "step" /\ last'.opcode = "Rti" /\ last.op = "nmi"
    /\ ~HasFlag(last.p, Break) /\ HasFlag(last.p, Unused)

\* C37: NMI entry from program counter p, stack pointer s and status P0 (B
\* clear, U set) followed by the handler's RTI resumes with PC = p, SP = s
\* and P = P0.
C37_NmiRoundTrip ==
    [][ RtiAfterNmi =>
            /\ ~fatal'
            /\ cpu'.pc = last.pc /\ cpu'.sp = last.sp /\ cpu'.p = last.p ]_vars

\* the stack pointer and the status do come back
NmiRoundTripButPc ==
    [][ RtiAfterNmi => ~fatal' /\ cpu'.sp = last.sp /\ cpu'.p = last.p ]_vars

\* C8: JSR at p pushes p+2, high byte first, then low byte; after JSR followed
\* immediately by RTS at the target, PC = p+3 modulo 0x10000 and SP is the
\* SP before the JSR.
C8_JsrRts ==
    [][ /\ (last'.op = "step" /\ last'.opcode = "Jsr" /\ ~fatal') =>
              /\ StackByte(ram', cpu.sp) = Hi(U16(cpu.pc + 2))
              /\ StackByte(ram', cpu.sp + 255) = Lo(U16(cpu.pc + 2))
              /\ cpu'.sp = U8(cpu.sp + 254)
        /\ ( /\ last'.op = "step" /\ last'.opcode = "Rts"
             /\ last'.prev_op = "step" /\ last'.prev_opcode = "Jsr"
             /\ ~fatal' ) =>
              /\ cpu'.pc = U16(last'.prev_pc + 3)
              /\ cpu'.sp = last'.prev_sp ]_vars

\* C8 witness: JSR at 0xFFFD with SP = 0, then RTS: the return address wraps
\* to 0x0000 and the pushes wrap the stack pointer
C8_Witness ==
    /\ ~fatal
    /\ last.op = "step" /\ last.opcode = "Rts"
    /\ last.prev_op = "step" /\ last.prev_opcode = "Jsr"
    /\ last.prev_pc = 65533 /\ last.prev_sp = 0
    /\ cpu.pc = 0 /\ cpu.sp = 0

----------------------------------------------------------------------------
(* The bus and the PPU on their own: tick, take_nmi and the two PPU ports   *)
(* that decide the NMI edge, called in any order on a fresh bus.            *)

\* Bus::tick takes the cycles of one instruction; 7 is the largest the
\* decode table holds, 84 * 3 is still a u8
TickCycles == {7, 84}

CtrlBytes == {0, 128}

MaxPpuCycles == 30100

Did(op) == [NoLast EXCEPT !.op = op]

InitPpu ==
    /\ rom = CpuRomA
    /\ \E m \in {BusNew(rom)} :
          /\ cpu = m.cpu /\ ram = m.ram /\ ppu = m.ppu
          /\ controller = m.controller /\ bus_cycle = m.bus_cycle /\ fatal = m.fatal
    /\ last = NoLast
    /\ ops = 0

\* bus.tick(n)
PpuBusTick ==
    \E n \in TickCycles :
        /\ bus_cycle + n <= MaxPpuCycles
        /\ \E r \in {BusTick(M, n)} :
              /\ Commit(r.m)
              /\ last' = [Did("tick") EXCEPT !.cycles = n, !.ret = r.ret,
                                             !.frame = r.frame]
        /\ UNCHANGED ops

\* bus.take_nmi()
PpuTakeNmi ==
    /\ \E r \in {BusTakeNmi(M)} :
          /\ Commit(r.m)
          /\ last' = [Did("take_nmi") EXCEPT !.ret = r.ret]
    /\ UNCHANGED ops

\* bus.write_u8(0x2000, v)
PpuWriteCtrl ==
    \E v \in CtrlBytes :
        /\ \E m \in {WriteU8(M, 8192, v)} :
              /\ Commit(m)
              /\ last' = [Did("write_ppuctrl") EXCEPT
                              !.data = v,
                              !.raised = ppu.has_nmi = NmiNone
                                         /\ m.ppu.has_nmi = NmiRaised]
        /\ UNCHANGED ops

\* bus.read_u8(0x2002)
PpuReadStatus ==
    /\ \E r \in {ReadU8(M, 8194)} :
          /\ Commit(r.m)
          /\ last' = [Did("read_ppustatus") EXCEPT !.cycles = r.val]
    /\ UNCHANGED ops

NextPpu == PpuBusTick \/ PpuTakeNmi \/ PpuWriteCtrl \/ PpuReadStatus

SpecPpu == InitPpu /\ [][NextPpu]_vars

\* C6: Bus::tick returns true iff NMI-pending was clear before the call and
\* is raised after it; Bus::take_nmi returns true iff the flag is raised and
\* always leaves it clear, so two consecutive take_nmi calls never both
\* return true.
C6_NmiEdge ==
    [][ /\ last'.op = "tick" =>
              (last'.ret <=> (ppu.has_nmi = NmiNone /\ ppu'.has_nmi = NmiRaised))
        /\ last'.op = "take_nmi" =>
              /\ last'.ret <=> (ppu.has_nmi = NmiRaised)
              /\ ppu'.has_nmi = NmiNone
        /\ (last.op = "take_nmi" /\ last'.op = "take_nmi") =>
              ~(last.ret /\ last'.ret) ]_vars

\* C6 witness: a take_nmi that returned true and cleared the flag
C6_Witness ==
    last.op = "take_nmi" /\ last.ret /\ ppu.has_nmi = NmiNone /\ IsVblank(ppu)

\* the tick with these dots carries the dot counter past the end of the scanline
Crosses(pp, dots) == pp.cycle + dots >= DotsPerScanline

\* C9: a tick that moves the scanline counter to 241 sets VBlank and raises
\* NMI-pending iff PPUCTRL bit 7 is set; a tick that moves it to 262 wraps it
\* to 0, clears VBlank, NMI-pending and sprite-0 hit and returns true; every
\* other tick returns false.
C9_TickTransitions ==
    [][ last'.op = "tick" =>
          LET crossed == Crosses(ppu, 3 * last'.cycles)
          IN  /\ (crossed /\ ppu.scanline + 1 = VBlankScanline) =>
                    /\ ppu'.scanline = VBlankScanline
                    /\ IsVblank(ppu')
                    /\ ppu'.has_nmi = NmiRaised <=> HasFlag(ppu.ctrl_register, NMISTARTS_ON_VBI)
              /\ (crossed /\ ppu.scanline + 1 = ScanlinesPerFrame) =>
                    /\ ppu'.scanline = 0
                    /\ ~IsVblank(ppu')
                    /\ ppu'.has_nmi = NmiNone
                    /\ ~HasFlag(ppu'.status_register, SPRITE_0_HIT)
                    /\ last'.frame
              /\ ~(crossed /\ ppu.scanline + 1 = ScanlinesPerFrame) => ~last'.frame ]_vars

\* C9 witness: the tick that wrapped the frame with an NMI still pending
C9_Witness ==
    /\ last.op = "tick" /\ last.frame
    /\ ppu.scanline = 0 /\ ppu.has_nmi = NmiNone
    /\ HasFlag(ppu.ctrl_register, NMISTARTS_ON_VBI)

\* C13: a write to PPUCTRL raises NMI-pending iff bit 7 was clear before the
\* write, the written byte sets it and VBlank is set; in every other case the
\* write leaves NMI-pending as it was.
C13_CtrlWriteRaises ==
    [][ last'.op = "write_ppuctrl" =>
          IF /\ ~HasFlag(ppu.ctrl_register, NMISTARTS_ON_VBI)
             /\ HasFlag(last'.data, NMISTARTS_ON_VBI)
             /\ HasFlag(ppu.status_register, VBLANK_START)
          THEN ppu'.has_nmi = NmiRaised
          ELSE ppu'.has_nmi = ppu.has_nmi ]_vars

\* C13 witness: a write during VBlank that raised the NMI
C13_Witness ==
    /\ last.op = "write_ppuctrl" /\ last.data = 128 /\ last.raised
    /\ ppu.has_nmi = NmiRaised /\ IsVblank(ppu)

----------------------------------------------------------------------------
(* The PPU on its own, ticked with raw dot counts from construction.        *)

\* dots of one Ppu::tick call: 11 * 31 = 155 + 186 = 341, a whole scanline
\* in calls that fit the u8 argument
TickDots == {31, 155, 186}

MaxDots == 90000

FrameDots == ScanlinesPerFrame * DotsPerScanline

DotPos(pp) == pp.scanline * DotsPerScanline + pp.cycle

\* dots ticked since construction; last.frames counts the ticks that
\* returned true
TotalDots == last.frames * FrameDots + DotPos(ppu)

\* Ppu::new, with PPUCTRL as write_ppuctrl leaves it before the first dot
InitTicks ==
    /\ rom = CpuRomA
    /\ \E m \in {BusNew(rom)}, v \in CtrlBytes :
          /\ cpu = m.cpu /\ ram = m.ram /\ ppu = WritePpuctrl(m.ppu, v)
          /\ controller = m.controller /\ bus_cycle = m.bus_cycle /\ fatal = m.fatal
    /\ last = NoLast
    /\ ops = 0

\* ppu.tick(d)
TicksTick ==
    \E d \in TickDots :
        /\ TotalDots + d <= MaxDots
        /\ \E r \in {PpuTick(ppu, d)} :
              /\ ppu' = r.ppu
              /\ last' = [Did("ppu_tick") EXCEPT
                              !.cycles = d, !.frame = r.frame,
                              !.frames = last.frames + (IF r.frame THEN 1 ELSE 0)]
        /\ UNCHANGED <<cpu, ram, rom, controller, bus_cycle, fatal, ops>>

NextTicks == TicksTick

SpecTicks == InitTicks /\ [][NextTicks]_vars

\* the dots of 241 scanlines
VBlankDots == VBlankScanline * DotsPerScanline

\* C10 as stated: after 241 advances of 341 dots from a fresh PPU exactly one
\* frame boundary has been reported, VBlank is set at scanline 241 and
\* NMI-pending is raised iff PPUCTRL bit 7 was set.
C10_AsStated ==
    TotalDots = VBlankDots =>
        /\ last.frames = 1
        /\ ppu.scanline = VBlankScanline
        /\ IsVblank(ppu)
        /\ ppu.has_nmi = NmiRaised <=> HasFlag(ppu.ctrl_register, NMISTARTS_ON_VBI)

\* C10: after 241 advances of 341 dots from a fresh PPU no frame boundary has
\* been reported, VBlank is set with the scanline counter at 241 and
\* NMI-pending is raised iff PPUCTRL bit 7 was set.
C10_TickSequence ==
    TotalDots = VBlankDots =>
        /\ last.frames = 0
        /\ ppu.scanline = VBlankScanline
        /\ IsVblank(ppu)
        /\ ppu.has_nmi = NmiRaised <=> HasFlag(ppu.ctrl_register, NMISTARTS_ON_VBI)

\* C10 witness: the 241st scanline has just been completed with NMI enabled
C10_Witness ==
    /\ last.op = "ppu_tick" /\ TotalDots = VBlankDots
    /\ ppu.scanline = VBlankScanline /\ ppu.cycle = 0
    /\ ppu.has_nmi = NmiRaised

----------------------------------------------------------------------------
(* The host loop of main: each iteration takes a pending NMI or steps the   *)
(* CPU, ticks the bus with the cycles returned, samples the keys and draws  *)
(* when that tick returned true.                                            *)

MaxHostCycles == 30000

\* the keys held down when read_keys samples them, as the status byte
KeyBytes == {0, 128}

\* a program ROM of NOP (EA) with RTI at F000, vectors NMI = F000 and
\* reset = 8000, and the bytes of code at 8000 + offset
HostRom(offset, code) ==
    Rom(32768, 234,
        [i \in {offset + k - 1 : k \in 1..Len(code)} |-> code[i - offset + 1]]
        @@ (28672 :> 64)
        @@ (32762 :> 0) @@ (32763 :> 240) @@ (32764 :> 0) @@ (32765 :> 128))

\* LDA #$80 / STA $2000
EnableNmi == <<169, 128, 141, 0, 32>>

\* where the program enables NMI: at reset, at scanline 246 inside VBlank, and
\* so that the write lands on scanline 261 twelve dots before the frame wraps
EnableOffsets == {0, 14000, 14885}

HostRoms == {HostRom(0, <<>>)} \cup {HostRom(o, EnableNmi) : o \in EnableOffsets}

\* Bus::new, Cpu::new and cpu.reset()
InitHost ==
    /\ rom \in HostRoms
    /\ \E m \in {Reset(BusNew(rom))} :
          /\ cpu = m.cpu /\ ram = m.ram /\ ppu = m.ppu
          /\ controller = m.controller /\ bus_cycle = m.bus_cycle /\ fatal = m.fatal
    /\ last = NoLast
    /\ ops = 0

\* the rest of an iteration once cycles are known: bus.tick(cycles),
\* read_keys, render
HostFinish(m, rec) ==
    \E keys \in KeyBytes :
    \E k \in {BusTick(m, rec.cycles)} :
        /\ Commit(BusReadKeys(k.m, keys))
        /\ last' = [rec EXCEPT !.render = k.ret,
                               !.frame = rec.frame \/ k.frame,
                               !.raised = rec.raised \/ k.ret]
        /\ UNCHANGED ops

\* an iteration whose take_nmi returned true
HostNmi ==
    /\ ~fatal /\ bus_cycle < MaxHostCycles
    /\ \E t \in {BusTakeNmi(M)} :
          /\ t.ret
          /\ \E r \in {Nmi(t.m)} :
                HostFinish(r.m, [Did("host_nmi") EXCEPT !.cycles = 2, !.pc = cpu.pc])

\* an iteration whose take_nmi returned false
HostStep ==
    /\ ~fatal /\ bus_cycle < MaxHostCycles
    /\ \E t \in {BusTakeNmi(M)} :
          /\ ~t.ret
          /\ \E r \in {Step(t.m)} :
                /\ r.ins.opcode \in ModelledOpcodes
                /\ HostFinish(r.m,
                      [Did("host_step") EXCEPT
                           !.opcode = r.ins.opcode, !.cycles = r.ret, !.pc = cpu.pc,
                           !.frame = r.ticked.frame,
                           !.raised = r.m.ppu.has_nmi = NmiRaised])

NextHost == HostNmi \/ HostStep

SpecHost == InitHost /\ [][NextHost]_vars

HostOps == {"host_nmi", "host_step"}

\* C3: whenever NMI-pending becomes raised during an iteration, the very next
\* iteration runs the NMI entry instead of an instruction, and only then: the
\* raise is never lost and never serviced twice.
C3_NmiServicedOnce ==
    [][ last'.op \in HostOps => (last'.op = "host_nmi" <=> last.raised) ]_vars

\* dots the PPU moved over one step of the model
Advance == (DotPos(ppu') - DotPos(ppu)) % FrameDots

\* C4: an iteration that executes an instruction of c base cycles advances
\* the PPU by exactly 3 * c dots, and an iteration that enters the NMI by
\* 3 * 2 dots.
C4_ThreeDotsPerCycle ==
    [][ /\ last'.op = "host_step" => Advance = 3 * last'.cycles
        /\ last'.op = "host_nmi" => Advance = 3 * 2 ]_vars

\* C34: an iteration that executes an instruction charges its decoded base
\* cycle count: Cpu::step returns it, the CPU's cycle counter grows by it and
\* the bus's cycle accumulator grows by it.
C34_BaseCyclesCharged ==
    [][ last'.op = "host_step" =>
          \E ins \in {Decode(ReadU8(M, cpu.pc).val)} :
              /\ last'.cycles = ins.cycles
              /\ cpu'.cycles = cpu.cycles + ins.cycles
              /\ bus_cycle' = bus_cycle + ins.cycles ]_vars

\* what Cpu::step alone does to the counters
StepCharges ==
    [][ last'.op = "host_step" =>
          \E ins \in {Decode(ReadU8(M, cpu.pc).val)} :
              /\ last'.cycles = ins.cycles
              /\ cpu'.cycles = cpu.cycles + ins.cycles
              /\ bus_cycle' = bus_cycle + 2 * ins.cycles ]_vars

\* C5: an iteration presents the framebuffer exactly when the PPU reported
\* frame complete in it, whether or not PPUCTRL enables NMI.
C5_RenderOnFrame ==
    [][ last'.op \in HostOps => (last'.render <=> last'.frame) ]_vars

----------------------------------------------------------------------------
(* The PPU address register on its own, driven as test_ppu_addr_reg drives  *)
(* it: update, inc and reset on a new register.                             *)

MaxRegOps == 5

RegBytes == {33, 63, 64, 255}

\* the two values of PpuCtrlRegister::vram_inc
IncBytes == {1, 32}

InitReg ==
    /\ rom = CpuRomA
    /\ \E m \in {BusNew(rom)} :
          /\ cpu = m.cpu /\ ram = m.ram
          /\ ppu = [m.ppu EXCEPT !.addr_register = AddrNew]
          /\ controller = m.controller /\ bus_cycle = m.bus_cycle /\ fatal = m.fatal
    /\ last = NoLast
    /\ ops = 0

\* the last write was a low byte that followed its high byte
PairWritten == last.op = "update" /\ last.addr_n = 0 /\ last.hi >= 0

\* addr_register.update(b); addr_n counts the updates since the latch was
\* reset, modulo 2, and hi is the byte of the last update made at count 0
RegUpdate ==
    \E b \in RegBytes :
        /\ ops < MaxRegOps
        /\ ppu' = [ppu EXCEPT !.addr_register = AddrUpdate(@, b)]
        /\ last' = [Did("update") EXCEPT
                        !.data = b,
                        !.addr_n = (last.addr_n + 1) % 2,
                        !.hi = IF last.addr_n = 0 THEN b
                               ELSE IF last.op = "update" THEN last.hi ELSE -1]
        /\ ops' = ops + 1
        /\ UNCHANGED <<cpu, ram, rom, controller, bus_cycle, fatal>>

\* addr_register.inc(n)
RegInc ==
    \E n \in IncBytes :
        /\ ops < MaxRegOps
        /\ ppu' = [ppu EXCEPT !.addr_register = AddrInc(@, n)]
        /\ last' = [Did("inc") EXCEPT
                        !.data = n,
                        !.addr_n = last.addr_n,
                        !.hi = IF PairWritten THEN last.hi ELSE -1,
                        !.val = IF PairWritten THEN last.data ELSE 0]
        /\ ops' = ops + 1
        /\ UNCHANGED <<cpu, ram, rom, controller, bus_cycle, fatal>>

\* addr_register.reset()
RegReset ==
    /\ ops < MaxRegOps
    /\ ppu' = [ppu EXCEPT !.addr_register = AddrReset(@)]
    /\ last' = Did("reset_latch")
    /\ ops' = ops + 1
    /\ UNCHANGED <<cpu, ram, rom, controller, bus_cycle, fatal>>

NextReg == RegUpdate \/ RegInc \/ RegReset

SpecReg == InitReg /\ [][NextReg]_vars

\* updates alternate between the high and the low byte from the latch reset
\* on, and a high byte followed by a low byte gives (hi << 8) | lo
UpdatesAlternate ==
    /\ last'.op = "update" =>
          IF last.addr_n = 0
          THEN ppu'.addr_register.value = last'.data * 256 + Lo(ppu.addr_register.value)
          ELSE ppu'.addr_register.value = Hi(ppu.addr_register.value) * 256 + last'.data
    /\ (last'.op = "update" /\ last.op = "update" /\ last.addr_n = 1) =>
          ppu'.addr_register.value = last.data * 256 + last'.data

\* C12 as stated: writing hi then lo from a reset latch sets the address to
\* (hi << 8) | lo, a following increment by 1 leaves it at ((hi << 8) | lo) + 1,
\* and later writes keep alternating high byte, low byte.
C12_AsStated ==
    [][ /\ UpdatesAlternate
        /\ (last'.op = "inc" /\ last'.data = 1 /\ PairWritten) =>
              ppu'.addr_register.value = last.hi * 256 + last.data + 1 ]_vars

\* C12: writing hi then lo from a reset latch sets the address to
\* (hi << 8) | lo, a following increment by 1 leaves it at
\* (((hi << 8) | lo) + 1) mod 0x4000, and later writes keep alternating high
\* byte, low byte.
C12_AddrLatch ==
    [][ /\ UpdatesAlternate
        /\ (last'.op = "inc" /\ last'.data = 1 /\ PairWritten) =>
              ppu'.addr_register.value = (last.hi * 256 + last.data + 1) % 16384 ]_vars

\* C12 witness: 3F then FF written, then an increment by 1 that wraps to 0
C12_Witness ==
    /\ last.op = "inc" /\ last.data = 1 /\ last.hi = 63 /\ last.val = 255
    /\ ppu.addr_register.value = 0

----------------------------------------------------------------------------
(* The status port and the two write latches, through the bus.              *)

RECURSIVE Ticked(_, _)
\* n calls of bus.tick(85), 255 dots each
Ticked(m, n) ==
    IF n = 0 THEN m
    ELSE IF n = 1 THEN BusTick(m, 85).m
    ELSE Bind(Ticked(m, n \div 2), LAMBDA half : Ticked(half, n - n \div 2))

\* the machine after Bus::new, sprites shown (0x10 to 0x2001), OAM[0] = y
\* (y to 0x2004) and n ticks of 255 dots
StatusRun(y, n) ==
    Ticked(WriteU8(WriteU8(BusNew(rom), 8193, SHOW_SPRITES), 8196, y), n)

\* runs that end with status 00, 40 (sprite 0 hit on scanline 1), 80 (VBlank)
\* and C0 (sprite 0 hit on scanline 245)
StatusRuns == {<<1, 0>>, <<1, 3>>, <<245, 323>>, <<245, 330>>}

LatchAddrBytes == {33, 63}

LatchScrollBytes == {7, 200}

InitLatch ==
    /\ rom = CpuRomA
    /\ \E run \in StatusRuns :
       \E m \in {StatusRun(run[1], run[2])} :
          /\ cpu = m.cpu /\ ram = m.ram /\ ppu = m.ppu
          /\ controller = m.controller /\ bus_cycle = m.bus_cycle /\ fatal = m.fatal
    /\ last = NoLast
    /\ ops = 0

\* the record of an operation, carrying what is known of the latches:
\* addr_n and scroll_n count the writes to each port since the last status
\* read, modulo 2; addr_reset and scroll_reset tell whether a status read came
\* after the last write to the port, and at which count
Carried(op) ==
    [Did(op) EXCEPT !.addr_n = last.addr_n, !.scroll_n = last.scroll_n,
                    !.addr_reset = last.addr_reset,
                    !.scroll_reset = last.scroll_reset]

Parity(n) == IF n = 0 THEN "even" ELSE "odd"

\* bus.write_u8(0x2006, b)
LatchWriteAddr ==
    \E b \in LatchAddrBytes :
        /\ Commit(WriteU8(M, 8198, b))
        /\ last' = [Carried("write_ppuaddr") EXCEPT
                        !.data = b, !.addr_n = (last.addr_n + 1) % 2,
                        !.reset_was = last.addr_reset, !.addr_reset = "no"]
        /\ UNCHANGED ops

\* bus.write_u8(0x2005, b)
LatchWriteScroll ==
    \E b \in LatchScrollBytes :
        /\ Commit(WriteU8(M, 8197, b))
        /\ last' = [Carried("write_ppuscroll") EXCEPT
                        !.data = b, !.scroll_n = (last.scroll_n + 1) % 2,
                        !.reset_was = last.scroll_reset, !.scroll_reset = "no"]
        /\ UNCHANGED ops

\* bus.read_u8(0x2002)
LatchReadStatus ==
    /\ \E r \in {ReadU8(M, 8194)} :
          /\ Commit(r.m)
          /\ last' = [Carried("read_ppustatus") EXCEPT
                          !.val = r.val, !.addr_n = 0, !.scroll_n = 0,
                          !.addr_reset = IF last.addr_reset # "no" THEN last.addr_reset
                                         ELSE Parity(last.addr_n),
                          !.scroll_reset = IF last.scroll_reset # "no"
                                           THEN last.scroll_reset
                                           ELSE Parity(last.scroll_n)]
    /\ UNCHANGED ops

NextLatch == LatchWriteAddr \/ LatchWriteScroll \/ LatchReadStatus

SpecLatch == InitLatch /\ [][NextLatch]_vars

\* C11: a read of 0x2002 returns the status byte as it was before the read,
\* clears only the VBlank bit and resets both latches: however many writes
\* came before it, the next PPUADDR write sets the high byte and the next
\* PPUSCROLL write sets X.
C11_StatusRead ==
    [][ /\ last'.op = "read_ppustatus" =>
              /\ last'.val = ppu.status_register
              /\ ppu'.status_register = WithoutFlag(ppu.status_register, VBLANK_START)
        /\ (last'.op = "write_ppuaddr" /\ last.addr_reset # "no") =>
              ppu'.addr_register.value
                  = last'.data * 256 + Lo(ppu.addr_register.value)
        /\ (last'.op = "write_ppuscroll" /\ last.scroll_reset # "no") =>
              /\ ppu'.scroll_register.x = last'.data
              /\ ppu'.scroll_register.y = ppu.scroll_register.y ]_vars

\* C11 witness: the status was read between the first and the second write
\* of a scroll pair, and the write after the read has set X
C11_Witness ==
    /\ last.op = "write_ppuscroll" /\ last.reset_was = "odd"
    /\ last.data = 200 /\ ppu.scroll_register.x = 200 /\ ppu.scroll_register.y = 7
    /\ HasFlag(ppu.status_register, SPRITE_0_HIT)

----------------------------------------------------------------------------
(* The PPU data port through the bus: PPUADDR writes, PPUDATA writes and    *)
(* PPUDATA reads on a cartridge with character ROM.                         *)

\* an 8 KiB character ROM: 0000 = 11, 0400 = 33, 1000 = 22, 1C20 = 44
ChrRom == [len |-> 8192,
           data |-> (0 :> 17) @@ (1024 :> 51) @@ (4096 :> 34) @@ (7200 :> 68)]

\* Bus::new on an image with this character ROM and mirroring flag, then the
\* two PPUADDR writes hi, lo
DataStart(chr, mirroring, hi, lo) ==
    WriteU8(WriteU8([BusNew(rom) EXCEPT !.ppu = PpuNew(chr, mirroring)],
                    8198, hi), 8198, lo)

\* the record of an operation, carrying the address and the byte of the most
\* recent PPUDATA write (wrote = -1: none yet)
Kept(op) == [Did(op) EXCEPT !.wrote = last.wrote, !.wdata = last.wdata]

\* bus.write_u8(0x2006, b)
DataWriteAddr(bytes, max) ==
    \E b \in bytes :
        /\ ~fatal /\ ops < max
        /\ Commit(WriteU8(M, 8198, b))
        /\ last' = [Kept("write_ppuaddr") EXCEPT !.data = b]
        /\ ops' = ops + 1

\* bus.write_u8(0x2007, v)
DataWrite(bytes, max) ==
    \E v \in bytes :
        /\ ~fatal /\ ops < max
        /\ Commit(WriteU8(M, 8199, v))
        /\ last' = [Did("write_ppudata") EXCEPT
                        !.data = v, !.address = ppu.addr_register.value,
                        !.wrote = ppu.addr_register.value, !.wdata = v]
        /\ ops' = ops + 1

\* bus.read_u8(0x2007)
DataRead(max) ==
    /\ ~fatal /\ ops < max
    /\ \E r \in {ReadU8(M, 8199)} :
          /\ Commit(r.m)
          /\ last' = [Kept("read_ppudata") EXCEPT
                          !.val = r.val, !.address = ppu.addr_register.value]
    /\ ops' = ops + 1

----------------------------------------------------------------------------
(* Nametable addresses 0x2000-0x2FFF under both mirroring modes.            *)

MaxNtOps == 5

\* the high bytes of the four nametables, also written as low bytes
NtBytes == {32, 36, 40, 44}

NtData == {90}

InitNt ==
    /\ rom = CpuRomA
    /\ \E mirroring \in BOOLEAN, hi \in NtBytes, lo \in {32} :
       \E m \in {DataStart(ChrRom, mirroring, hi, lo)} :
          /\ cpu = m.cpu /\ ram = m.ram /\ ppu = m.ppu
          /\ controller = m.controller /\ bus_cycle = m.bus_cycle /\ fatal = m.fatal
    /\ last = NoLast
    /\ ops = 0

NextNt == DataWriteAddr(NtBytes, MaxNtOps) \/ DataWrite(NtData, MaxNtOps)
          \/ DataRead(MaxNtOps)

SpecNt == InitNt /\ [][NextNt]_vars

InNametables(a) == a >= 8192 /\ a <= 12287

\* the backing index of the mirroring table: i = addr - 0x2000, q = i / 0x400
TableIndex(mirroring, a) ==
    LET i == a - 8192
        q == i \div 1024
    IN  IF mirroring
        THEN <<i, i, i - 2048, i - 2048>>[q + 1]
        ELSE <<i, i - 1024, i - 1024, i - 2048>>[q + 1]

\* the two addresses name the same byte: the same offset k in nametables
\* that share (0x2000 with 0x2400 and 0x2800 with 0x2C00 when horizontal,
\* 0x2000 with 0x2800 and 0x2400 with 0x2C00 when vertical)
SameByte(mirroring, a, b) ==
    LET qa == (a - 8192) \div 1024
        qb == (b - 8192) \div 1024
    IN  /\ a % 1024 = b % 1024
        /\ IF mirroring THEN qa % 2 = qb % 2 ELSE qa \div 2 = qb \div 2

\* C15: PPUDATA writes and reads at 0x2000-0x2FFF use the backing index of
\* the mirroring table, and the byte of a write through one address is read
\* back through the addresses that share its byte and through no other.
C15_Mirroring ==
    [][ /\ (last'.op = "write_ppudata" /\ InNametables(last'.address)) =>
              /\ ~fatal'
              /\ ppu'.vram = Put(ppu.vram, TableIndex(ppu.mirroring, last'.address),
                                 last'.data, 0)
        /\ (last'.op = "read_ppudata" /\ InNametables(last'.address)) =>
              /\ ~fatal'
              /\ ppu'.buffer = Get(ppu.vram, TableIndex(ppu.mirroring, last'.address), 0)
              /\ ppu'.vram = ppu.vram
        /\ (/\ last'.op = "read_ppudata" /\ InNametables(last'.address)
            /\ last.wrote >= 0 /\ InNametables(last.wrote)) =>
              IF SameByte(ppu.mirroring, last.wrote, last'.address)
              THEN ppu'.buffer = last.wdata
              ELSE Cardinality(DOMAIN ppu.vram) = 1 => ppu'.buffer # last.wdata ]_vars

\* C15 witness: vertical mirroring, 5A written through 0x2020 has been read
\* into the buffer through 0x2820
C15_Witness ==
    /\ last.op = "read_ppudata" /\ last.address = 10272 /\ last.wrote = 8224
    /\ ppu.mirroring /\ ppu.buffer = 90 /\ ~fatal

----------------------------------------------------------------------------
(* Palette, reserved and character-ROM addresses through the data port.     *)

MaxPalOps == 4

\* 3F and 30 as high bytes; the low bytes of the four aliased palette pairs
\* and 20, the first byte past the 32 palette entries
PalBytes == {63, 48, 0, 4, 8, 12, 16, 20, 24, 28, 32}

PalData == {42}

InitPal ==
    /\ rom = CpuRomA
    /\ \E hi \in {63, 32, 16}, lo \in PalBytes \ {63, 48} :
       \E m \in {DataStart(ChrRom, FALSE, hi, lo)} :
          /\ cpu = m.cpu /\ ram = m.ram /\ ppu = m.ppu
          /\ controller = m.controller /\ bus_cycle = m.bus_cycle /\ fatal = m.fatal
    /\ last = NoLast
    /\ ops = 0

NextPal == DataWriteAddr(PalBytes, MaxPalOps) \/ DataWrite(PalData, MaxPalOps)
           \/ DataRead(MaxPalOps)

SpecPal == InitPal /\ [][NextPal]_vars

InChrRom(a) == a >= 0 /\ a <= 8191

InReserved(a) == a >= 12288 /\ a <= 16127

InPalette(a) == a >= 16128 /\ a <= 16383

\* the palette entry of an address in 0x3F00-0x3FFF: the 32 entries repeat,
\* and 10, 14, 18, 1C alias 00, 04, 08, 0C
PaletteEntry(a) ==
    LET o == (a - 16128) % 32
    IN  IF o \in {16, 20, 24, 28} THEN o - 16 ELSE o

\* C14: a PPUDATA read at a character-ROM or nametable address returns the
\* read buffer as it was and reloads the buffer with the byte backing the
\* address; a read at a palette address 0x3F00-0x3FFF returns the palette
\* byte in that same read.
C14_BufferedRead ==
    [][ last'.op = "read_ppudata" =>
          /\ InChrRom(last'.address) =>
                /\ ~fatal' /\ last'.val = ppu.buffer
                /\ ppu'.buffer = Get(ppu.chr_rom.data, last'.address, 0)
          /\ InNametables(last'.address) =>
                /\ ~fatal' /\ last'.val = ppu.buffer
                /\ ppu'.buffer
                     = Get(ppu.vram, TableIndex(ppu.mirroring, last'.address), 0)
          /\ InPalette(last'.address) =>
                /\ ~fatal'
                /\ last'.val = Get(ppu.palette, PaletteEntry(last'.address), 0) ]_vars

\* C16: every PPUDATA read or write at 0x3F00-0x3FFF completes without a
\* fatal error and reads or writes one of the 32 palette bytes; accesses at
\* 0x3000-0x3EFF are fatal.
C16_PaletteRange ==
    [][ /\ (last'.op = "read_ppudata" /\ InPalette(last'.address)) =>
              /\ ~fatal'
              /\ \E i \in 0..(PaletteSize - 1) : last'.val = Get(ppu.palette, i, 0)
        /\ (last'.op = "write_ppudata" /\ InPalette(last'.address)) =>
              /\ ~fatal'
              /\ \E i \in 0..(PaletteSize - 1) :
                    ppu'.palette = Put(ppu.palette, i, last'.data, 0)
        /\ (last'.op \in {"read_ppudata", "write_ppudata"}
            /\ InReserved(last'.address)) => fatal' ]_vars

\* the two addresses are one of the pairs (0x3F10, 0x3F00), (0x3F14, 0x3F04),
\* (0x3F18, 0x3F08), (0x3F1C, 0x3F0C), in either order
AliasPair(a, b) ==
    \E j \in 0..3 : {a, b} = {16144 + 4 * j, 16128 + 4 * j}

\* C17: a byte written through PPUDATA at either address of an aliased
\* palette pair is the byte a PPUDATA read at the other address yields.
C17_PaletteAlias ==
    [][ (/\ last'.op = "read_ppudata" /\ last.wrote >= 0
         /\ AliasPair(last.wrote, last'.address)) =>
            ~fatal' /\ last'.val = last.wdata ]_vars

\* C17 witness: 2A written at 0x3F1C has been read at 0x3F0C
C17_Witness ==
    /\ last.op = "read_ppudata" /\ last.address = 16140 /\ last.wrote = 16156
    /\ last.val = 42 /\ ~fatal

----------------------------------------------------------------------------
(* OAM DMA through the bus: RAM writes, OAMADDR writes and writes to 0x4014. *)

MaxDmaOps == 2

\* bus.write_u8(0x0300 + i, i) for i in from..to
RECURSIVE RampWritten(_, _, _)
RampWritten(m, from, to) ==
    IF from > to THEN m
    ELSE IF from = to THEN WriteU8(m, 768 + from, from)
    ELSE Bind(RampWritten(m, from, (from + to) \div 2), LAMBDA half :
             RampWritten(half, (from + to) \div 2 + 1, to))

\* RAM addresses (0x0300, 0x03FF, 0x0B01 a mirror of 0x0301, 0x0000)
DmaRamAddrs == {768, 1023, 2817, 0}

DmaRamData == {90}

DmaOamAddrs == {0, 1, 128, 255}

\* RAM pages 00, 03, 0B (mirror of 03), the PPU port page 20, the APU page
\* 40, and the program ROM pages 80 and A0
DmaPages == {0, 3, 11, 32, 64, 128, 160}

InitDma ==
    /\ rom = CpuRomA
    /\ \E ramp \in BOOLEAN :
       \E m \in {IF ramp THEN RampWritten(BusNew(rom), 0, 255) ELSE BusNew(rom)} :
          /\ cpu = m.cpu /\ ram = m.ram /\ ppu = m.ppu
          /\ controller = m.controller /\ bus_cycle = m.bus_cycle /\ fatal = m.fatal
    /\ last = NoLast
    /\ ops = 0

\* bus.write_u8(a, v) at a RAM address
DmaWriteRam ==
    \E a \in DmaRamAddrs, v \in DmaRamData :
        /\ ~fatal /\ ops < MaxDmaOps
        /\ Commit(WriteU8(M, a, v))
        /\ last' = [Did("write_ram") EXCEPT !.address = a, !.data = v]
        /\ ops' = ops + 1

\* bus.write_u8(0x2003, a)
DmaWriteOamaddr ==
    \E a \in DmaOamAddrs :
        /\ ~fatal /\ ops < MaxDmaOps
        /\ Commit(WriteU8(M, 8195, a))
        /\ last' = [Did("write_oamaddr") EXCEPT !.data = a]
        /\ ops' = ops + 1

\* bus.write_u8(0x4014, p)
DmaStart ==
    \E p \in DmaPages :
        /\ ~fatal /\ ops < MaxDmaOps
        /\ Commit(WriteU8(M, 16404, p))
        /\ last' = [Did("write_dma") EXCEPT !.data = p, !.address = ppu.oam_addr]
        /\ ops' = ops + 1

NextDma == DmaWriteRam \/ DmaWriteOamaddr \/ DmaStart

SpecDma == InitDma /\ [][NextDma]_vars

\* the 256 CPU reads at (p << 8) + i all complete
PageReadable(m, p) ==
    \A i \in 0..(DmaSize - 1) : ~ReadU8(m, p * 256 + i).m.fatal

\* C18: after a write of p to 0x4014 whose source page is readable, with
\* OAMADDR a before the write, OAM[(a + i) mod 256] is the byte the CPU reads
\* at (p << 8) + i for every i in 0..255, and OAMADDR is a again.
C18_OamDma ==
    [][ (last'.op = "write_dma" /\ PageReadable(M, last'.data)) =>
            /\ ~fatal'
            /\ \A i \in 0..(DmaSize - 1) :
                  Get(ppu'.oam, (ppu.oam_addr + i) % 256, 0)
                      = ReadU8(M, last'.data * 256 + i).val
            /\ ppu'.oam_addr = ppu.oam_addr
            /\ ram' = ram /\ controller' = controller ]_vars

\* C18 witness: the ramp at 0x0300-0x03FF has been copied with OAMADDR 128
C18_Witness ==
    /\ last.op = "write_dma" /\ last.data = 3 /\ last.address = 128 /\ ~fatal
    /\ Get(ppu.oam, 127, 0) = 255 /\ Get(ppu.oam, 129, 0) = 1
    /\ Get(ppu.oam, 0, 0) = 128 /\ ppu.oam_addr = 128

----------------------------------------------------------------------------
(* CPU reads and writes at port addresses: the PPU ports and their mirrors, *)
(* the APU range, the DMA port and the controller ports.                    *)

MaxBusOps == 2

\* the eight PPU ports, mirrors of 0x2000, 0x2002, 0x2003, 0x2006 and 0x2007,
\* APU addresses 0x4000, 0x4013, 0x4015, the DMA port, both controller ports
\* and a RAM address
BusAddrs == {8192, 8193, 8194, 8195, 8196, 8197, 8198, 8199,
             8200, 16378, 8203, 16382, 12295,
             16384, 16403, 16405, 16404, 16406, 16407, 16}

BusData == {33}

\* machines after Bus::new, after two PPUADDR writes, and after ticks that
\* leave the status register at 0xC0
BusStarts == {BusNew(rom), DataStart(ChrRom, FALSE, 33, 0), StatusRun(245, 330)}

InitBus ==
    /\ rom = CpuRomA
    /\ \E m \in BusStarts :
          /\ cpu = m.cpu /\ ram = m.ram /\ ppu = m.ppu
          /\ controller = m.controller /\ bus_cycle = m.bus_cycle /\ fatal = m.fatal
    /\ last = NoLast
    /\ ops = 0

\* bus.read_u8(a)
BusReadAt ==
    \E a \in BusAddrs :
        /\ ~fatal /\ ops < MaxBusOps
        /\ \E r \in {ReadU8(M, a)} :
              /\ Commit(r.m)
              /\ last' = [Did("read_u8") EXCEPT !.address = a, !.val = r.val]
        /\ ops' = ops + 1

\* bus.write_u8(a, v)
BusWriteAt ==
    \E a \in BusAddrs, v \in BusData :
        /\ ~fatal /\ ops < MaxBusOps
        /\ Commit(WriteU8(M, a, v))
        /\ last' = [Did("write_u8") EXCEPT !.address = a, !.data = v]
        /\ ops' = ops + 1

NextBus == BusReadAt \/ BusWriteAt

SpecBus == InitBus /\ [][NextBus]_vars

\* 0x4000-0x4015 without 0x4014
InApuRange(a) == a >= 16384 /\ a <= 16405 /\ a # 16404

\* 0x2000, 0x2001, 0x2003, 0x2005, 0x2006 and their mirrors up to 0x3FFF,
\* and 0x4014
IsWriteOnlyPort(a) ==
    \/ a >= 8192 /\ a <= 16383 /\ a % 8 \in {0, 1, 3, 5, 6}
    \/ a = 16404

\* 0x2002 and its mirrors up to 0x3FFF
IsStatusPort(a) == a >= 8192 /\ a <= 16383 /\ a % 8 = 2

\* C19: a CPU read at 0x4000-0x4013, 0x4015 or 0x4017 returns 0 without a
\* fatal error; a CPU write at 0x4000-0x4013, 0x4015 or 0x4017 leaves RAM,
\* the PPU and the controller as they were.
C19_ApuIgnored ==
    [][ /\ (last'.op = "read_u8" /\ (InApuRange(last'.address) \/ last'.address = 16407)) =>
              ~fatal' /\ last'.val = 0
        /\ (last'.op = "write_u8" /\ (InApuRange(last'.address) \/ last'.address = 16407)) =>
              /\ ~fatal'
              /\ ram' = ram /\ ppu' = ppu /\ controller' = controller ]_vars

\* C20: a CPU read of a write-only port or one of its mirrors, and a CPU
\* write to 0x2002 or one of its mirrors, end in the fatal-error state and
\* leave RAM, the PPU and the controller as they were.
C20_FatalPorts ==
    [][ (\/ last'.op = "read_u8" /\ IsWriteOnlyPort(last'.address)
         \/ last'.op = "write_u8" /\ IsStatusPort(last'.address)) =>
            /\ fatal'
            /\ ram' = ram /\ ppu' = ppu /\ controller' = controller ]_vars

\* C20 witness: a read of 0x3FFE, a mirror of PPUADDR, has failed after the
\* PPU address was set to 0x2100
C20_Witness ==
    /\ last.op = "read_u8" /\ last.address = 16382 /\ fatal
    /\ ppu.addr_register.value = 8448

----------------------------------------------------------------------------
(* The controller port 0x4016 through the bus, with the host's read_keys   *)
(* between accesses.                                                        *)

MaxPadOps == 12

\* button states: A; A, Select, Down, Right; B, Start, Up, Left
PadKeys == {1, 165, 90}

\* bytes written to 0x4016
PadData == {0, 1}

InitPad ==
    /\ rom = CpuRomA
    /\ \E k \in PadKeys :
       \E m \in {BusReadKeys(BusNew(rom), k)} :
          /\ cpu = m.cpu /\ ram = m.ram /\ ppu = m.ppu
          /\ controller = m.controller /\ bus_cycle = m.bus_cycle /\ fatal = m.fatal
    /\ last = NoLast
    /\ ops = 0

\* the record of an operation, carrying the button state at the most recent
\* write of 1 (snap, -1: none yet) and the number of reads made since the
\* strobe was cleared after it (nreads, -1: not cleared yet)
PadKept(op) == [Did(op) EXCEPT !.snap = last.snap, !.nreads = last.nreads]

\* bus.write_u8(0x4016, d)
PadWrite ==
    \E d \in PadData :
        /\ ~fatal /\ ops < MaxPadOps
        /\ Commit(WriteU8(M, 16406, d))
        /\ last' = [PadKept("write_pad") EXCEPT
                        !.data = d,
                        !.snap = IF d = 1 THEN controller.status ELSE last.snap,
                        !.nreads = IF d = 1 THEN -1
                                   ELSE IF last.snap >= 0 /\ last.nreads = -1 THEN 0
                                   ELSE last.nreads]
        /\ ops' = ops + 1

\* bus.read_u8(0x4016)
PadRead ==
    /\ ~fatal /\ ops < MaxPadOps
    /\ \E r \in {ReadU8(M, 16406)} :
          /\ Commit(r.m)
          /\ last' = [PadKept("read_pad") EXCEPT
                          !.val = r.val,
                          !.nreads = IF last.nreads >= 0 THEN last.nreads + 1 ELSE -1]
    /\ ops' = ops + 1

\* bus.read_keys() with the keys k held down
PadReadKeys ==
    \E k \in PadKeys :
        /\ ~fatal /\ ops < MaxPadOps
        /\ Commit(BusReadKeys(M, k))
        /\ last' = [PadKept("read_keys") EXCEPT !.data = k]
        /\ ops' = ops + 1

NextPad == PadWrite \/ PadRead \/ PadReadKeys

SpecPad == InitPad /\ [][NextPad]_vars

\* bit i of a byte, as 0 or 1
BitOf(v, i) == (v \div (2 ^ i)) % 2

\* C21: with the strobe cleared after a write of 1 then 0 to 0x4016, the
\* i-th read (i = 0..7) returns bit i of the button status, and the 9th and
\* every later read returns 1 until the next write of 1.
C21_SerialRead ==
    [][ (last'.op = "read_pad" /\ last.nreads >= 0) =>
            /\ ~fatal'
            /\ last'.val = IF last.nreads <= 7
                           THEN BitOf(controller.status, last.nreads) ELSE 1 ]_vars

\* C21 witness: ten reads have been made with A, Select, Down, Right held,
\* the last of them returning 1
C21_Witness ==
    /\ last.op = "read_pad" /\ last.nreads = 10 /\ last.val = 1
    /\ controller.status = 165 /\ controller.index = 8

\* C22: the bits returned by the reads that follow a write of 1 to 0x4016
\* are those of the button state at the time of that write, also when
\* read_keys has changed the button state since.
C22_Latched ==
    [][ (last'.op = "read_pad" /\ last.nreads >= 0 /\ last.nreads <= 7) =>
            last'.val = BitOf(last.snap, last.nreads) ]_vars

----------------------------------------------------------------------------
(* RAM and program ROM through the bus: read_u8, write_u8 and read_u16.     *)

MaxMemOps == 3

\* 8000 = CD, 8001 = AB, FFFF = EE
MemRom == Rom(32768, 0, At(32768, <<205, 171>>) @@ At(65535, <<238>>))

\* RAM addresses: the first and last cell of each of the four 2 KiB windows,
\* and 0x0001 and 0x0801
MemAddrs == {0, 1, 2047, 2048, 2049, 4095, 4096, 6143, 6144, 8191}

MemData == {205, 171}

\* addresses of 16-bit reads: 0xFFFF (the high byte is at 0x0000), 0x8000,
\* 0x07FF and 0x0FFF (the high byte is in the next window), 0x0000, and
\* 0x1FFF (the high byte is at the write-only port 0x2000)
MemWordAddrs == {65535, 32768, 2047, 4095, 0, 8191}

InitMem ==
    /\ rom = MemRom
    /\ \E m \in {BusNew(rom)} :
          /\ cpu = m.cpu /\ ram = m.ram /\ ppu = m.ppu
          /\ controller = m.controller /\ bus_cycle = m.bus_cycle /\ fatal = m.fatal
    /\ last = NoLast
    /\ ops = 0

\* bus.write_u8(a, v)
MemWrite ==
    \E a \in MemAddrs, v \in MemData :
        /\ ~fatal /\ ops < MaxMemOps
        /\ Commit(WriteU8(M, a, v))
        /\ last' = [Did("write_u8") EXCEPT
                        !.address = a, !.data = v, !.wrote = a, !.wdata = v]
        /\ ops' = ops + 1

\* bus.read_u8(a)
MemRead ==
    \E a \in MemAddrs :
        /\ ~fatal /\ ops < MaxMemOps
        /\ \E r \in {ReadU8(M, a)} :
              /\ Commit(r.m)
              /\ last' = [Kept("read_u8") EXCEPT !.address = a, !.val = r.val]
        /\ ops' = ops + 1

\* bus.read_u16(a)
MemReadWord ==
    \E a \in MemWordAddrs :
        /\ ~fatal /\ ops < MaxMemOps
        /\ \E r \in {ReadU16(M, a)} :
              /\ Commit(r.m)
              /\ last' = [Kept("read_u16") EXCEPT !.address = a, !.val = r.val]
        /\ ops' = ops + 1

NextMem == MemWrite \/ MemRead \/ MemReadWord

SpecMem == InitMem /\ [][NextMem]_vars

InRam(a) == a >= 0 /\ a <= 8191

\* the byte stored for a CPU address in RAM or in the program ROM
MemByte(a) ==
    IF InRam(a) THEN Get(ram, a % 2048, 0) ELSE Get(rom.data, a - 32768, rom.fill)

\* a CPU address backed by RAM or by the 32 KiB program ROM
Stored(a) == InRam(a) \/ (a >= 32768 /\ a <= 65535)

\* C23: a CPU write at a in 0x0000-0x1FFF changes RAM cell a mod 0x0800 and
\* no other cell, a CPU read at a returns RAM cell a mod 0x0800, and a byte
\* written at a is read back at every address a + 0x800 * k below 0x2000.
C23_RamMirror ==
    [][ /\ (last'.op = "write_u8" /\ InRam(last'.address)) =>
              /\ ~fatal'
              /\ ram' = Put(ram, last'.address % 2048, last'.data, 0)
              /\ \A i \in (DOMAIN ram \cup DOMAIN ram') \ {last'.address % 2048} :
                    Get(ram', i, 0) = Get(ram, i, 0)
        /\ (last'.op = "read_u8" /\ InRam(last'.address)) =>
              /\ ~fatal' /\ ram' = ram
              /\ last'.val = Get(ram, last'.address % 2048, 0)
        /\ (/\ last'.op = "read_u8" /\ InRam(last'.address) /\ last.wrote >= 0
            /\ (last'.address - last.wrote) % 2048 = 0) =>
              last'.val = last.wdata ]_vars

\* C23 witness: AB written at 0x0801 has been read back at 0x0001
C23_Witness ==
    /\ last.op = "read_u8" /\ last.address = 1 /\ last.wrote = 2049
    /\ last.val = 171 /\ ~fatal

\* C24: read_u16(a) with both bytes in RAM or ROM is the byte at a plus 256
\* times the byte at (a + 1) mod 0x10000, and changes nothing; read_u16 at
\* 0xFFFF takes the high byte from 0x0000.
C24_ReadU16 ==
    [][ (/\ last'.op = "read_u16"
         /\ Stored(last'.address) /\ Stored((last'.address + 1) % 65536)) =>
            /\ ~fatal' /\ ram' = ram
            /\ last'.val = MemByte(last'.address)
                           + 256 * MemByte((last'.address + 1) % 65536) ]_vars

\* C24 witness: read_u16(0xFFFF) has returned 0xCDEE, CD being RAM cell 0
C24_Witness ==
    /\ last.op = "read_u16" /\ last.address = 65535 /\ last.val = 52718
    /\ Get(ram, 0, 0) = 205 /\ ~fatal

----------------------------------------------------------------------------
(* The stack helpers of the CPU, called as the unit test calls them.        *)

MaxStackOps == 4

\* stack pointers at both ends of the page, and FD as after reset
StackSps == {0, 1, 253, 255}

StackBytes == {218, 92}

\* DA5C, and 005C whose high byte is zero
StackWords == {55900, 92}

InitStack ==
    /\ rom = CpuRomA
    /\ \E s \in StackSps :
       \E m \in {[BusNew(rom) EXCEPT !.cpu.sp = s]} :
          /\ cpu = m.cpu /\ ram = m.ram /\ ppu = m.ppu
          /\ controller = m.controller /\ bus_cycle = m.bus_cycle /\ fatal = m.fatal
    /\ last = NoLast
    /\ ops = 0

\* cpu.stack_push_u8(v)
StackPush ==
    \E v \in StackBytes :
        /\ ~fatal /\ ops < MaxStackOps
        /\ Commit(StackPushU8(M, v))
        /\ last' = [Began("push") EXCEPT !.data = v]
        /\ ops' = ops + 1

\* cpu.stack_pop_u8()
StackPop ==
    /\ ~fatal /\ ops < MaxStackOps
    /\ \E r \in {StackPopU8(M)} :
          /\ Commit(r.m)
          /\ last' = [Began("pop") EXCEPT !.val = r.val, !.data = last.data]
    /\ ops' = ops + 1

\* cpu.stack_push_u16(v)
StackPushWord ==
    \E v \in StackWords :
        /\ ~fatal /\ ops < MaxStackOps
        /\ Commit(StackPushU16(M, v))
        /\ last' = [Began("push_u16") EXCEPT !.data = v]
        /\ ops' = ops + 1

\* cpu.stack_pop_u16()
StackPopWord ==
    /\ ~fatal /\ ops < MaxStackOps
    /\ \E r \in {StackPopU16(M)} :
          /\ Commit(r.m)
          /\ last' = [Began("pop_u16") EXCEPT !.val = r.val, !.data = last.data]
    /\ ops' = ops + 1

NextStack == StackPush \/ StackPop \/ StackPushWord \/ StackPopWord

SpecStack == InitStack /\ [][NextStack]_vars

\* the RAM cell of stack address 0x0100 | s
StackCell(s) == 256 + s

\* C25: a push writes at 0x0100 | SP and then decrements SP, a pop increments
\* SP and reads at 0x0100 | SP, SP wraps modulo 256, no cell outside
\* 0x0100-0x01FF changes, and a pop right after a push (of a byte or of a
\* word) returns the pushed value and restores SP.
C25_Stack ==
    [][ /\ last'.op = "push" =>
              /\ ram' = Put(ram, StackCell(cpu.sp), last'.data, 0)
              /\ cpu'.sp = (cpu.sp + 255) % 256
        /\ last'.op = "pop" =>
              /\ cpu'.sp = (cpu.sp + 1) % 256 /\ ram' = ram
              /\ last'.val = Get(ram, StackCell(cpu'.sp), 0)
        /\ last'.op = "push_u16" =>
              /\ cpu'.sp = (cpu.sp + 254) % 256
              /\ \A i \in (DOMAIN ram \cup DOMAIN ram') :
                    Get(ram', i, 0) # Get(ram, i, 0) => i >= 256 /\ i <= 511
        /\ last'.op = "pop_u16" =>
              cpu'.sp = (cpu.sp + 2) % 256 /\ ram' = ram
        /\ (last'.op = "pop" /\ last.op = "push") =>
              last'.val = last.data /\ cpu'.sp = last.sp
        /\ (last'.op = "pop_u16" /\ last.op = "push_u16") =>
              last'.val = last.data /\ cpu'.sp = last.sp
        /\ ~fatal' ]_vars

\* C25 witness: DA5C pushed with SP = 0 (the high byte at 0x0100, the low
\* byte at 0x01FF) has been popped again
C25_Witness ==
    /\ last.op = "pop_u16" /\ last.prev_op = "push_u16" /\ last.val = 55900
    /\ cpu.sp = 0 /\ Get(ram, 256, 0) = 218 /\ Get(ram, 511, 0) = 92

----------------------------------------------------------------------------
(* Single instructions run by cpu.step(), as the unit tests of the CPU run  *)
(* them: a program, registers assigned, then steps.                         *)

\* cpu.step() on an instruction whose arm is modelled
InsStep(max) ==
    /\ ~fatal /\ ops < max
    /\ Decode(ReadU8(M, cpu.pc).val).opcode \in ModelledOpcodes
    /\ \E r \in {Step(M)} :
           /\ Commit(r.m)
           /\ last' = [Began("step") EXCEPT !.opcode = r.ins.opcode,
                                            !.cycles = r.ret]
    /\ ops' = ops + 1

\* the byte of the program ROM at a CPU address
RomByte(a) == Get(rom.data, a - RomBase, rom.fill)

\* the flag is set in a status byte
Flag(p, mask) == (p \div mask) % 2 = 1

----------------------------------------------------------------------------
(* ADC and SBC with an immediate operand.                                   *)

MaxArithOps == 2

ArithBytes == {0, 1, 15, 64, 65, 80, 127, 128, 160, 240, 255}

\* no flag; carry; carry with N, V, U, D; U with I (as after reset)
ArithPs == {0, 1, 229, 36}

\* ADC #M (69) and SBC #M (E9)
ArithOpcodes == {105, 233}

InitArith ==
    /\ \E op \in ArithOpcodes, v \in ArithBytes :
          rom = Rom(32768, 0, At(32768, <<op, v, op, v>>))
    /\ \E a0 \in ArithBytes, p0 \in ArithPs :
          cpu = [CpuNew EXCEPT !.pc = 32768, !.a = a0, !.p = p0]
    /\ ram = Empty
    /\ ppu = BusNew(rom).ppu
    /\ controller = ControllerNew
    /\ bus_cycle = 0
    /\ fatal = FALSE
    /\ last = NoLast
    /\ ops = 0

NextArith == InsStep(MaxArithOps)

SpecArith == InitArith /\ [][NextArith]_vars

\* A, C, V, Z, N after adding operand v and the carry to the accumulator, and
\* the other flags and registers as they were
Added(v) ==
    LET sum == cpu.a + v + (IF Flag(cpu.p, 1) THEN 1 ELSE 0)
        res == sum % 256
    IN  /\ cpu'.a = res
        /\ Flag(cpu'.p, 1) = (sum > 255)
        /\ Flag(cpu'.p, 64) = (/\ (v >= 128) = (cpu.a >= 128)
                               /\ (res >= 128) # (cpu.a >= 128))
        /\ Flag(cpu'.p, 2) = (res = 0)
        /\ Flag(cpu'.p, 128) = (res >= 128)
        /\ \A mask \in {4, 8, 16, 32} : Flag(cpu'.p, mask) = Flag(cpu.p, mask)
        /\ cpu'.x = cpu.x /\ cpu'.y = cpu.y /\ cpu'.sp = cpu.sp
        /\ cpu'.pc = cpu.pc + 2

\* C27: ADC #M leaves A = (A + M + C) mod 256, C = (A + M + C > 0xFF),
\* V = bit 7 of (M xor result) and (A xor result), Z = (result = 0) and
\* N = bit 7 of the result; SBC #M leaves what ADC leaves with operand
\* M xor 0xFF.
C27_AdcSbc ==
    [][ /\ last'.opcode = "Adc" => ~fatal' /\ Added(RomByte(cpu.pc + 1))
        /\ last'.opcode = "Sbc" => ~fatal' /\ Added(255 - RomByte(cpu.pc + 1)) ]_vars

\* C27 witness: the first step, SBC #$50 with the carry set and no other
\* flag, has left A = 0x00 with Z and C set and V clear (A was 0x50)
C27_Witness ==
    /\ last.op = "step" /\ last.opcode = "Sbc" /\ ops = 1
    /\ RomByte(32769) = 80 /\ last.p = 1
    /\ cpu.a = 0 /\ cpu.p = 3

----------------------------------------------------------------------------
(* PHP and PLP.                                                             *)

MaxPushOps == 2

\* PHP PLP (08 28) and PLP PHP (28 08)
PushPrograms == {<<8, 40>>, <<40, 8>>}

\* status bytes with B and U in all four combinations
PushPs == {0, 36, 165, 16, 181, 255}

PushSps == {255, 253, 0, 1}

\* stack bytes an earlier push left: 0100 = 12, 0101 = FF, 0102 = 10, 01FE = 34
PushRams == {Empty, (256 :> 18) @@ (257 :> 255) @@ (258 :> 16) @@ (510 :> 52)}

InitPush ==
    /\ \E prg \in PushPrograms : rom = Rom(32768, 0, At(32768, prg))
    /\ \E p0 \in PushPs, sp0 \in PushSps :
          cpu = [CpuNew EXCEPT !.pc = 32768, !.p = p0, !.sp = sp0]
    /\ ram \in PushRams
    /\ ppu = BusNew(rom).ppu
    /\ controller = ControllerNew
    /\ bus_cycle = 0
    /\ fatal = FALSE
    /\ last = NoLast
    /\ ops = 0

NextPush == InsStep(MaxPushOps)

SpecPush == InitPush /\ [][NextPush]_vars

\* a status byte with B (0x10) and U (0x20) both set
WithBU(p) ==
    p + (IF Flag(p, 16) THEN 0 ELSE 16) + (IF Flag(p, 32) THEN 0 ELSE 32)

\* a status byte with B cleared and U set
Pulled(p) ==
    p - (IF Flag(p, 16) THEN 16 ELSE 0) + (IF Flag(p, 32) THEN 0 ELSE 32)

----------------------------------------------------------------------------
(* The eight branch instructions.                                           *)

MaxBranchOps == 1

\* BCC 90, BCS B0, BEQ F0, BMI 30, BNE D0, BPL 10, BVS 70, BVC 50
BranchOpcodes == {144, 176, 240, 48, 208, 16, 112, 80}

\* offsets -5, +16, -128, +127, 0, +50
BranchOffsets == {251, 16, 128, 127, 0, 50}

\* the address of the branch: C000, the start of the ROM, and FFFE, whose
\* post-advance PC wraps to 0000
BranchPcs == {49152, 32768, 65534}

BranchPs == {0, 128, 239, 1, 64, 2, 195}

InitBranch ==
    /\ \E op \in BranchOpcodes, o \in BranchOffsets, pc0 \in BranchPcs :
          /\ rom = Rom(32768, 0, At(pc0, <<op, o>>))
          /\ \E p0 \in BranchPs : cpu = [CpuNew EXCEPT !.pc = pc0, !.p = p0]
    /\ ram = Empty
    /\ ppu = BusNew(rom).ppu
    /\ controller = ControllerNew
    /\ bus_cycle = 0
    /\ fatal = FALSE
    /\ last = NoLast
    /\ ops = 0

NextBranch == InsStep(MaxBranchOps)

SpecBranch == InitBranch /\ [][NextBranch]_vars

\* the condition of a branch instruction on a status byte
Taken(opcode, p) ==
    CASE opcode = "Bcc" -> ~Flag(p, 1)
      [] opcode = "Bcs" -> Flag(p, 1)
      [] opcode = "Bne" -> ~Flag(p, 2)
      [] opcode = "Beq" -> Flag(p, 2)
      [] opcode = "Bvc" -> ~Flag(p, 64)
      [] opcode = "Bvs" -> Flag(p, 64)
      [] opcode = "Bpl" -> ~Flag(p, 128)
      [] opcode = "Bmi" -> Flag(p, 128)

\* an offset byte as a signed number
Signed(o) == IF o >= 128 THEN o - 256 ELSE o

BranchNames == {"Bcc", "Bcs", "Bne", "Beq", "Bvc", "Bvs", "Bpl", "Bmi"}

\* C28: a branch at address p with offset byte o leaves
\* PC = (p + 2 + signed(o)) mod 0x10000 when its condition holds and
\* PC = (p + 2) mod 0x10000 otherwise, and leaves the status register as it
\* was.
C28_Branches ==
    [][ last'.opcode \in BranchNames =>
            /\ ~fatal'
            /\ cpu'.pc = IF Taken(last'.opcode, cpu.p)
                         THEN (cpu.pc + 2 + Signed(RomByte(cpu.pc + 1)) + 65536) % 65536
                         ELSE (cpu.pc + 2) % 65536
            /\ cpu'.p = cpu.p ]_vars

\* C28 witness: BPL with offset FB at C000 and N clear has landed at BFFD
C28_Witness ==
    /\ last.opcode = "Bpl" /\ last.pc = 49152 /\ RomByte(49153) = 251
    /\ last.p = 0 /\ cpu.pc = 49149 /\ cpu.p = 0

----------------------------------------------------------------------------
(* JMP absolute and JMP (indirect).                                         *)

MaxJmpOps == 1

\* JMP (6C, indirect) and JMP (4C, absolute)
JmpOpcodes == {108, 76}

\* pointers in RAM and in ROM, four of them with low byte FF
JmpPointers == {767, 512, 2047, 0, 255, 32771, 33023, 33024, 65535}

\* RAM bytes: 0000 = 34, 0001 = 12, 00FF = CD, 0100 = AB, 0200 = A5,
\* 0201 = 11, 02FF = 5A, 0300 = 77, 0700 = 80, 07FF = 10
JmpRams ==
    { Empty,
      (0 :> 52) @@ (1 :> 18) @@ (255 :> 205) @@ (256 :> 171) @@ (512 :> 165)
         @@ (513 :> 17) @@ (767 :> 90) @@ (768 :> 119) @@ (1792 :> 128) @@ (2047 :> 16),
      (0 :> 1) @@ (767 :> 255) @@ (768 :> 255) @@ (2047 :> 2) }

\* the program at 8000, and ROM bytes 8003 = 5A, 8004 = A5, 80FF = 21,
\* 8100 = 99, FF00 = C0, FFFF = 0D
JmpRom(op, q) ==
    Rom(32768, 0,
        At(32768, <<op, Lo(q), Hi(q), 90, 165>>) @@ At(33023, <<33, 153>>)
        @@ At(65280, <<192>>) @@ At(65535, <<13>>))

InitJmp ==
    /\ \E op \in JmpOpcodes, q \in JmpPointers : rom = JmpRom(op, q)
    /\ \E p0 \in {36, 0} : cpu = [CpuNew EXCEPT !.pc = 32768, !.p = p0]
    /\ ram \in JmpRams
    /\ ppu = BusNew(rom).ppu
    /\ controller = ControllerNew
    /\ bus_cycle = 0
    /\ fatal = FALSE
    /\ last = NoLast
    /\ ops = 0

NextJmp == InsStep(MaxJmpOps)

SpecJmp == InitJmp /\ [][NextJmp]_vars

\* the 16-bit operand of the instruction at the program counter
Operand16 == RomByte(cpu.pc + 1) + 256 * RomByte(cpu.pc + 2)

\* C29: JMP (q) loads PC with the low byte from [q] and the high byte from
\* [q + 1], except when the low byte of q is 0xFF: then the high byte comes
\* from [q and 0xFF00].
C29_JmpIndirect ==
    [][ (last'.opcode = "Jmp" /\ RomByte(cpu.pc) = 108) =>
            /\ ~fatal' /\ cpu'.p = cpu.p /\ ram' = ram
            /\ cpu'.pc = MemByte(Operand16)
                         + 256 * MemByte(IF Operand16 % 256 = 255
                                         THEN Operand16 - 255
                                         ELSE Operand16 + 1) ]_vars

\* C29 witness: JMP ($02FF) with [02FF] = 5A, [0200] = A5 and [0300] = 77
\* has loaded PC = A55A
C29_Witness ==
    /\ last.opcode = "Jmp" /\ RomByte(32768) = 108
    /\ RomByte(32769) = 255 /\ RomByte(32770) = 2
    /\ Get(ram, 768, 0) = 119 /\ cpu.pc = 42330

----------------------------------------------------------------------------
(* Sprite 0 hit: OAM bytes 0 (y) and 3 (x) and the mask written through the *)
(* bus, then ticks.                                                         *)

MaxSpriteOps == 8

\* 255 and 87 dots
SpriteTicks == {85, 29}

SpriteYs == {1, 2}

SpriteXs == {0, 100, 255}

\* sprites shown, sprites hidden
SpriteMasks == {16, 0}

\* Bus::new, then mask to 0x2001, OAMADDR 0 and y, OAMADDR 3 and x
SpriteStart(mask, y, x) ==
    WriteU8(WriteU8(WriteU8(WriteU8(WriteU8(BusNew(rom), 8193, mask),
                                    8195, 0), 8196, y), 8195, 3), 8196, x)

InitSprite ==
    /\ rom = CpuRomA
    /\ \E mask \in SpriteMasks, y \in SpriteYs, x \in SpriteXs :
       \E m \in {SpriteStart(mask, y, x)} :
          /\ cpu = m.cpu /\ ram = m.ram /\ ppu = m.ppu
          /\ controller = m.controller /\ bus_cycle = m.bus_cycle /\ fatal = m.fatal
    /\ last = NoLast
    /\ ops = 0

\* bus.tick(n)
SpriteTick ==
    \E n \in SpriteTicks :
        /\ ~fatal /\ ops < MaxSpriteOps
        /\ \E r \in {BusTick(M, n)} :
              /\ Commit(r.m)
              /\ last' = [Did("tick") EXCEPT !.cycles = n, !.frame = r.frame]
        /\ ops' = ops + 1

NextSprite == SpriteTick

SpecSprite == InitSprite /\ [][NextSprite]_vars

\* the sprite-0-hit bit of the status register
Sprite0Hit(pp) == Flag(pp.status_register, 64)

\* C30: after a tick that leaves the PPU on the scanline OAM[0].y at a dot
\* not before OAM[0].x with sprites shown, the sprite-0-hit bit is set; and
\* a tick clears a set bit only when it enters scanline 241 or wraps the
\* frame.
C30_Sprite0Hit ==
    [][ last'.op = "tick" =>
          /\ (/\ Get(ppu'.oam, 0, 0) = ppu'.scanline
              /\ Get(ppu'.oam, 3, 0) <= ppu'.cycle
              /\ Flag(ppu'.mask_register, 16)) => Sprite0Hit(ppu')
          /\ (Sprite0Hit(ppu) /\ ~Sprite0Hit(ppu')) =>
                \/ ppu'.scanline = 241
                \/ last'.frame ]_vars

----------------------------------------------------------------------------
(* One instruction that reads the status port while the PPU is about to     *)
(* enter VBlank.                                                            *)

MaxOrderOps == 2

\* LDY $2002 (AC), LDA $2002 (AD), LDX $2002 (AE)
OrderOpcodes == {172, 173, 174}

\* 322 calls of bus.tick(85) leave the PPU on scanline 240 at dot 270
OrderTicks == 322

\* CPU cycles ticked after those: up to twelve dots past the start of
\* scanline 241
OrderLeads == 1..40

InitOrder ==
    /\ \E op \in OrderOpcodes :
          rom = Rom(32768, 0, At(32768, <<op, 2, 32, op, 2, 32>>))
    /\ \E k \in OrderLeads :
       \E m \in {BusTick(Ticked(BusNew(rom), OrderTicks), k).m} :
          /\ ram = m.ram /\ ppu = m.ppu /\ controller = m.controller
          /\ bus_cycle = m.bus_cycle /\ fatal = m.fatal
    /\ cpu = [CpuNew EXCEPT !.pc = 32768, !.p = 36, !.sp = 253]
    /\ last = NoLast
    /\ ops = 0

NextOrder == InsStep(MaxOrderOps)

SpecOrder == InitOrder /\ [][NextOrder]_vars

\* the register a load instruction fills
Loaded(c, opcode) ==
    CASE opcode = "Lda" -> c.a
      [] opcode = "Ldx" -> c.x
      [] opcode = "Ldy" -> c.y

\* C31: an instruction that reads the status port gets the PPU status from
\* before the instruction's own cycles were ticked: the register it loads
\* holds the status byte the PPU had when the step began.
C31_PortSeesEarlierPpu ==
    [][ last'.opcode \in {"Lda", "Ldx", "Ldy"} =>
            Loaded(cpu', last'.opcode) = ppu.status_register ]_vars

----------------------------------------------------------------------------
(* The PPU ticked from construction with the running dot total kept in ops. *)

\* dots of one Ppu::tick call: the largest u8 and a third of it
FrameTickDots == {85, 255}

\* two frames and a few scanlines
MaxFrameDots == 180000

\* Ppu::new, with PPUCTRL as write_ppuctrl leaves it before the first dot
InitFrames ==
    /\ rom = CpuRomA
    /\ \E m \in {BusNew(rom)}, v \in CtrlBytes :
          /\ cpu = m.cpu /\ ram = m.ram /\ ppu = WritePpuctrl(m.ppu, v)
          /\ controller = m.controller /\ bus_cycle = m.bus_cycle /\ fatal = m.fatal
    /\ last = NoLast
    /\ ops = 0

\* ppu.tick(d); ops becomes the dots ticked since construction and
\* last.frames the number of ticks that returned true
FramesTick ==
    \E d \in FrameTickDots :
        /\ ops + d <= MaxFrameDots
        /\ \E r \in {PpuTick(ppu, d)} :
              /\ ppu' = r.ppu
              /\ last' = [Did("ppu_tick") EXCEPT
                              !.cycles = d, !.frame = r.frame,
                              !.frames = last.frames + (IF r.frame THEN 1 ELSE 0)]
        /\ ops' = ops + d
        /\ UNCHANGED <<cpu, ram, rom, controller, bus_cycle, fatal>>

NextFrames == FramesTick

SpecFrames == InitFrames /\ [][NextFrames]_vars

\* C32: after every tick of at most 255 dots the dot counter is in 0..340 and
\* the scanline counter is in 0..261.
C32_CountersInRange ==
    /\ ppu.cycle \in 0..(DotsPerScanline - 1)
    /\ ppu.scanline \in 0..(ScanlinesPerFrame - 1)

\* C32 witness: a tick of 255 dots has crossed into a scanline and ended on
\* its last dot
C32_Witness ==
    /\ last.op = "ppu_tick" /\ last.cycles = 255
    /\ ppu.scanline >= 1 /\ ppu.cycle = DotsPerScanline - 1

\* C38: a tick returns true exactly when the running dot total reaches or
\* crosses a multiple of 89342, so the number of ticks that returned true is
\* the whole number of frames in the total.
C38_FramesReported ==
    [][ /\ last'.frame <=> (ops' \div FrameDots > ops \div FrameDots)
        /\ last'.frames = ops' \div FrameDots ]_vars

\* C38 witness: the tick that completed the second frame
C38_Witness ==
    /\ last.op = "ppu_tick" /\ last.frame /\ last.frames = 2
    /\ ops >= 2 * FrameDots /\ ops - last.cycles < 2 * FrameDots

----------------------------------------------------------------------------
(* The address increment of the data port, with PPUCTRL bit 2 clear and set. *)

MaxIncOps == 3

\* 00: add 1; 04: add 32
IncCtrls == {0, 4}

\* high bytes in character ROM, the nametables and the palette
IncHis == {0, 31, 32, 47, 63}

\* low bytes next to the ends of a page and of the 32 palette entries
IncLos == {0, 31, 32, 224, 255}

IncData == {90}

\* Bus::new, PPUADDR written twice and PPUCTRL written
InitInc ==
    /\ rom = CpuRomA
    /\ \E c \in IncCtrls, hi \in IncHis, lo \in IncLos :
       \E m \in {WriteU8(DataStart(ChrRom, FALSE, hi, lo), 8192, c)} :
          /\ cpu = m.cpu /\ ram = m.ram /\ ppu = m.ppu
          /\ controller = m.controller /\ bus_cycle = m.bus_cycle /\ fatal = m.fatal
    /\ last = NoLast
    /\ ops = 0

NextInc == DataWriteAddr(IncHis, MaxIncOps) \/ DataWrite(IncData, MaxIncOps)
           \/ DataRead(MaxIncOps)

SpecInc == InitInc /\ [][NextInc]_vars

\* the addresses a PPUDATA access is served at: nametables and palette, and
\* character ROM for reads
Served(op, a) ==
    \/ InNametables(a) \/ InPalette(a)
    \/ op = "read_ppudata" /\ InChrRom(a)

\* C33: every PPUDATA read and write advances the internal address by 1 when
\* PPUCTRL bit 2 is clear and by 32 when it is set, modulo 0x4000, and the
\* access is made at the address from before the increment.
C33_DataIncrement ==
    [][ (/\ last'.op \in {"read_ppudata", "write_ppudata"}
         /\ Served(last'.op, last'.address)) =>
            /\ ~fatal'
            /\ ppu'.addr_register.value
                 = (ppu.addr_register.value
                    + (IF BitOf(ppu.ctrl_register, 2) = 1 THEN 32 ELSE 1)) % 16384
            /\ (last'.op = "write_ppudata" /\ InNametables(last'.address)) =>
                  Get(ppu'.vram, TableIndex(ppu.mirroring, ppu.addr_register.value), 0)
                    = last'.data
            /\ (last'.op = "read_ppudata" /\ InChrRom(last'.address)) =>
                  ppu'.buffer = Get(ppu.chr_rom.data, ppu.addr_register.value, 0) ]_vars

\* the same on the accesses that do not end in a fatal error
IncrementWhenServed ==
    [][ (/\ last'.op \in {"read_ppudata", "write_ppudata"} /\ ~fatal') =>
            ppu'.addr_register.value
              = (ppu.addr_register.value
                 + (IF BitOf(ppu.ctrl_register, 2) = 1 THEN 32 ELSE 1)) % 16384 ]_vars

----------------------------------------------------------------------------
(* Loads, logical operations, register increments and transfers.            *)

MaxFlagOps == 1

\* LDA, LDX, LDY, AND, ORA, EOR with an immediate operand
FlagOpcodes2 == {169, 162, 160, 41, 9, 73}

\* INX, INY, DEX, DEY, TAX, TAY, TSX, TXA, TYA, TXS
FlagOpcodes1 == {232, 200, 202, 136, 170, 168, 186, 138, 152, 154}

FlagOperands == {0, 1, 127, 170, 255}

FlagAs == {0, 85, 128, 255}

FlagXs == {0, 127, 255}

FlagYs == {0, 128, 255}

FlagSps == {0, 253}

\* no flag; I and U (as after reset); C, Z, V, N; all eight
FlagPs == {0, 36, 195, 255}

InitFlags ==
    /\ \/ \E op \in FlagOpcodes2, v \in FlagOperands :
             rom = Rom(32768, 0, At(32768, <<op, v, op, v>>))
       \/ \E op \in FlagOpcodes1 :
             rom = Rom(32768, 0, At(32768, <<op, op>>))
    /\ \E a0 \in FlagAs, x0 \in FlagXs, y0 \in FlagYs, sp0 \in FlagSps, p0 \in FlagPs :
          cpu = [CpuNew EXCEPT !.pc = 32768, !.a = a0, !.x = x0, !.y = y0,
                               !.sp = sp0, !.p = p0]
    /\ ram = Empty
    /\ ppu = BusNew(rom).ppu
    /\ controller = ControllerNew
    /\ bus_cycle = 0
    /\ fatal = FALSE
    /\ last = NoLast
    /\ ops = 0

NextFlags == InsStep(MaxFlagOps)

SpecFlags == InitFlags /\ [][NextFlags]_vars

FlagSetters == {"Lda", "Ldx", "Ldy", "And", "Ora", "Eor", "Inx", "Iny", "Dex", "Dey",
                "Tax", "Tay", "Tsx", "Txa", "Tya"}

\* bit i of a | b, a & b, a ^ b from the bits of a and b
Bitwise(a, b, f(_, _)) ==
    LET bits == [i \in 0..7 |-> IF f(BitOf(a, i) = 1, BitOf(b, i) = 1) THEN 2 ^ i ELSE 0]
    IN  bits[0] + bits[1] + bits[2] + bits[3] + bits[4] + bits[5] + bits[6] + bits[7]

\* the 8-bit result of the instruction at pc, from the registers before it
FlagResult(opcode) ==
    LET v == RomByte(cpu.pc + 1)
    IN  CASE opcode \in {"Lda", "Ldx", "Ldy"} -> v
          [] opcode = "And" -> Bitwise(cpu.a, v, LAMBDA s, t : s /\ t)
          [] opcode = "Ora" -> Bitwise(cpu.a, v, LAMBDA s, t : s \/ t)
          [] opcode = "Eor" -> Bitwise(cpu.a, v, LAMBDA s, t : s # t)
          [] opcode = "Inx" -> (cpu.x + 1) % 256
          [] opcode = "Iny" -> (cpu.y + 1) % 256
          [] opcode = "Dex" -> (cpu.x - 1) % 256
          [] opcode = "Dey" -> (cpu.y - 1) % 256
          [] opcode \in {"Tax", "Tay"} -> cpu.a
          [] opcode = "Tsx" -> cpu.sp
          [] opcode = "Txa" -> cpu.x
          [] opcode = "Tya" -> cpu.y

\* the register the instruction leaves its result in
FlagTarget(c, opcode) ==
    CASE opcode \in {"Lda", "And", "Ora", "Eor", "Txa", "Tya"} -> c.a
      [] opcode \in {"Ldx", "Inx", "Dex", "Tax", "Tsx"} -> c.x
      [] opcode \in {"Ldy", "Iny", "Dey", "Tay"} -> c.y

\* C35: loads, AND/ORA/EOR, INX/INY/DEX/DEY and TAX/TAY/TSX/TXA/TYA leave
\* their 8-bit result in the target register, set Z exactly when it is 0 and
\* N to its bit 7, and change no other flag; TXS copies X to SP and changes
\* no flag.
C35_ZeroNegative ==
    [][ /\ last'.opcode \in FlagSetters =>
              \E res \in {FlagResult(last'.opcode)} :
                  /\ ~fatal'
                  /\ FlagTarget(cpu', last'.opcode) = res
                  /\ Flag(cpu'.p, 2) = (res = 0)
                  /\ Flag(cpu'.p, 128) = (BitOf(res, 7) = 1)
                  /\ \A mask \in {1, 4, 8, 16, 32, 64} :
                        Flag(cpu'.p, mask) = Flag(cpu.p, mask)
        /\ last'.opcode = "Txs" => cpu'.sp = cpu.x /\ cpu'.p = cpu.p ]_vars

\* C35 witness: EOR #$FF on A = 0xFF with no flag set has left A = 0 and only
\* Z set
C35_Witness ==
    /\ last.op = "step" /\ last.opcode = "Eor" /\ last.p = 0
    /\ cpu.a = 0 /\ cpu.p = 2 /\ ~fatal

\* a TXS with X = 0xFF and SP = 0 before it
TxsDone ==
    /\ last.op = "step" /\ last.opcode = "Txs" /\ last.sp = 0
    /\ cpu.sp = 255 /\ cpu.x = 255

----------------------------------------------------------------------------
(* Shifts and rotates on the accumulator and on a zero-page byte.           *)

MaxShiftOps == 1

\* ASL A (0A), ROL A (2A), LSR A (4A), ROR A (6A)
ShiftOpcodesA == {10, 42, 74, 106}

\* ASL $10 (06), ROL $10 (26), LSR $10 (46), ROR $10 (66)
ShiftOpcodesM == {6, 38, 70, 102}

\* the zero-page address of the operand
ShiftCell == 16

ShiftBytes == 0..255

\* no flag; carry; I and U (as after reset); all eight
ShiftPs == {0, 1, 36, 255}

InitShift ==
    /\ \E v \in ShiftBytes, p0 \in ShiftPs :
          \/ /\ \E op \in ShiftOpcodesA : rom = Rom(32768, 0, At(32768, <<op, op>>))
             /\ cpu = [CpuNew EXCEPT !.pc = 32768, !.a = v, !.p = p0, !.sp = 253]
             /\ ram = Empty
          \/ /\ \E op \in ShiftOpcodesM :
                   rom = Rom(32768, 0, At(32768, <<op, ShiftCell, op, ShiftCell>>))
             /\ cpu = [CpuNew EXCEPT !.pc = 32768, !.a = 165, !.p = p0, !.sp = 253]
             /\ ram = Put(Empty, ShiftCell, v, 0)
    /\ ppu = BusNew(rom).ppu
    /\ controller = ControllerNew
    /\ bus_cycle = 0
    /\ fatal = FALSE
    /\ last = NoLast
    /\ ops = 0

NextShift == InsStep(MaxShiftOps)

SpecShift == InitShift /\ [][NextShift]_vars

ShiftOps == {"Asl", "Rol", "Lsr", "Ror"}

\* the result of the shift or rotate of byte v with carry-in c (0 or 1)
Shifted(opcode, v, c) ==
    CASE opcode = "Asl" -> (v * 2) % 256
      [] opcode = "Rol" -> ((v * 2) % 256) + c
      [] opcode = "Lsr" -> v \div 2
      [] opcode = "Ror" -> (v \div 2) + (c * 128)

\* the carry it leaves: bit 7 of v going left, bit 0 going right
CarryOut(opcode, v) ==
    IF opcode \in {"Asl", "Rol"} THEN BitOf(v, 7) = 1 ELSE BitOf(v, 0) = 1

\* C36: ASL yields (v << 1) mod 256 and ROL that value | c, with carry-out
\* bit 7 of v; LSR yields v >> 1 and ROR that value | (c << 7), with
\* carry-out bit 0 of v; N and Z come from the result, which is stored to A
\* in accumulator mode and to the operand's address otherwise.
C36_ShiftRotate ==
    [][ last'.opcode \in ShiftOps =>
          \E acc \in {Decode(RomByte(cpu.pc)).mode = "Accumulator"} :
          \E v \in {IF acc THEN cpu.a ELSE MemByte(RomByte(cpu.pc + 1))} :
          \E res \in {Shifted(last'.opcode, v, IF Flag(cpu.p, 1) THEN 1 ELSE 0)} :
              /\ ~fatal'
              /\ IF acc THEN cpu'.a = res /\ ram' = ram
                 ELSE /\ ram' = Put(ram, RomByte(cpu.pc + 1), res, 0)
                      /\ cpu'.a = cpu.a
              /\ Flag(cpu'.p, 1) = CarryOut(last'.opcode, v)
              /\ Flag(cpu'.p, 2) = (res = 0)
              /\ Flag(cpu'.p, 128) = (BitOf(res, 7) = 1)
              /\ \A mask \in {4, 8, 16, 32, 64} :
                    Flag(cpu'.p, mask) = Flag(cpu.p, mask) ]_vars

\* C36 witness: ROR $10 on 0x01 with the carry set has stored 0x80 and left
\* C and N set
C36_Witness ==
    /\ last.op = "step" /\ last.opcode = "Ror" /\ last.p = 1
    /\ Get(ram, ShiftCell, 0) = 128 /\ cpu.a = 165 /\ cpu.p = 129 /\ ~fatal

----------------------------------------------------------------------------
(* The internal PPU address under PPUADDR writes of any byte, PPUSTATUS     *)
(* reads and PPUDATA accesses.                                              *)

MaxAddrOps == 4

\* high and low bytes: nametable, palette, and two bytes above 0x3F
AddrBytes == {0, 32, 63, 64, 255}

AddrData == {90}

InitAddr ==
    /\ rom = CpuRomA
    /\ \E hi \in {32, 63}, lo \in {0, 255} :
       \E m \in {DataStart(ChrRom, FALSE, hi, lo)} :
          /\ cpu = m.cpu /\ ram = m.ram /\ ppu = m.ppu
          /\ controller = m.controller /\ bus_cycle = m.bus_cycle /\ fatal = m.fatal
    /\ last = NoLast
    /\ ops = 0

\* bus.read_u8(0x2002)
AddrReadStatus ==
    /\ ~fatal /\ ops < MaxAddrOps
    /\ \E r \in {ReadU8(M, 8194)} :
          /\ Commit(r.m)
          /\ last' = [Kept("read_ppustatus") EXCEPT !.val = r.val]
    /\ ops' = ops + 1

NextAddr == DataWriteAddr(AddrBytes, MaxAddrOps) \/ DataWrite(AddrData, MaxAddrOps)
            \/ DataRead(MaxAddrOps) \/ AddrReadStatus

SpecAddr == InitAddr /\ [][NextAddr]_vars

\* C39: after any sequence of PPUADDR writes, PPUSTATUS reads and PPUDATA
\* accesses the internal address is in 0x0000-0x3FFF, and no PPUDATA access
\* is made at an address above 0x3FFF.
C39_AddressInRange ==
    /\ ppu.addr_register.value \in 0..16383
    /\ last.op \in {"read_ppudata", "write_ppudata"} => last.address \in 0..16383

\* the increment of a PPUDATA access that completes leaves 14 bits
AccessLeavesFourteenBits ==
    (last.op \in {"read_ppudata", "write_ppudata"} /\ ~fatal) =>
        ppu.addr_register.value \in 0..16383

----------------------------------------------------------------------------
(* The status register from reset on, under instructions that push and pull *)
(* it and NMI entries.                                                      *)

MaxStatusOps == 6

\* PHP / PLP / BRK
\* LDA #$FF / PHA / PLP / SEC / PHP / PLP
\* LDA #$10 / PHA / PHA / PHA / RTI
\* SED / SEI / ADC #$7F / PHP / PLA / PLP
\* LDA #$3F / PHA / PLP / CLV / CLD / CLI
StatusPrograms ==
    { <<8, 40, 0>>,
      <<169, 255, 72, 40, 56, 8, 40>>,
      <<169, 16, 72, 72, 72, 64>>,
      <<248, 120, 105, 127, 8, 104, 40>>,
      <<169, 63, 72, 40, 184, 216, 88>> }

\* the program at 8000, RTI at 9000; vectors NMI = 9000, reset = 8000
StatusRom(code) ==
    Rom(32768, 0,
        At(32768, code) @@ At(36864, <<64>>) @@ At(65530, <<0, 144, 0, 128>>))

\* Bus::new, Cpu::new and cpu.reset()
InitStatus ==
    /\ \E code \in StatusPrograms : rom = StatusRom(code)
    /\ \E m \in {Reset(BusNew(rom))} :
          /\ cpu = m.cpu /\ ram = m.ram /\ ppu = m.ppu
          /\ controller = m.controller /\ bus_cycle = m.bus_cycle /\ fatal = m.fatal
    /\ last = NoLast
    /\ ops = 0

\* cpu.nmi()
StatusNmi ==
    /\ ~fatal /\ ops < MaxStatusOps
    /\ \E r \in {Nmi(M)} : Commit(r.m)
    /\ last' = Began("nmi")
    /\ ops' = ops + 1

NextStatus == InsStep(MaxStatusOps) \/ StatusNmi

SpecStatus == InitStatus /\ [][NextStatus]_vars

====
